---- MODULE Spec2Model ----
(***************************************************************************)
(* Coordination layer of insightgraph's backend: the admission limiter     *)
(* (middleware/rate_limiter.py), the result cache                          *)
(* (services/cache_service.py), the job store and queue                    *)
(* (services/job_service.py), all on top of the Redis wrapper              *)
(* (services/redis_service.py).  Every await on Redis or on the extractor  *)
(* is a suspension point, so each handler is cut into one action per       *)
(* await; the local computation that follows an await belongs to the       *)
(* action of that await.                                                   *)
(***************************************************************************)
EXTENDS Integers, Sequences, FiniteSets, TLC

\* ------------------------------------------------------------------------
\* Bounds of the model
\* ------------------------------------------------------------------------
MaxPrior == 11
MaxRequests == 2
MaxTicks == 2
MaxRetries == 3
NumTexts == 3
HashSpace == 2

\* ------------------------------------------------------------------------
\* Program constants
\* ------------------------------------------------------------------------
PER_IP_REQUESTS == 10
PER_IP_WINDOW == 60
GLOBAL_REQUESTS == 15
GLOBAL_WINDOW == 60
CACHE_TTL == 24 * 3600
JOB_TTL == 3600
POLL_TIMEOUT == 5
LOOP_PAUSE == 1

\* The clock advances in steps of half a window.
TimeStep == PER_IP_WINDOW \div 2

\* Two client addresses, one slot per request, the input texts
Callers == {1, 2}
Slots == 1..MaxRequests
Texts == 1..NumTexts
NoText == 0

\* Numbers of earlier requests of one caller the initial state is drawn from:
\* none, what is left of the global budget after one full caller, and the
\* counts around the per-IP limit
PriorCounts == {0, GLOBAL_REQUESTS - PER_IP_REQUESTS}
               \cup (PER_IP_REQUESTS - 1 .. MaxPrior)

Max(a, b) == IF a >= b THEN a ELSE b

\* ------------------------------------------------------------------------
\* State
\* ------------------------------------------------------------------------
VARIABLES
    now,        \* wall clock of the Redis server, in seconds
    counter,    \* Redis integer keys rate_limit:* : count, expiry, and the
                \* instant of the increment that created the key (history)
    req,        \* the requests, each in a slot of its own
    admittedG,  \* history: admissions decided in the life of the current
                \* rate_limit:global key
    seen,       \* history: callers that have sent at least one request
    calls,      \* history: calls of the extraction backend started in the
                \* life of the current rate_limit:global key
    cache,      \* Redis string keys cache:extraction:* : JSON value, expiry
    goc,        \* the get_or_compute call of each task
    lastWrite,  \* history: per cache key, the task whose cache_set came last
    jobs,       \* Redis string keys job:* : JSON value, expiry
    queue,      \* Redis list extraction_jobs
    upd,        \* history: the latest update_job_status call, what it read,
                \* what it built and how it ended
    wk,         \* the worker processes, each at a point of process_loop
    pushed,     \* history: per job identifier, the state of its queue_push and
                \* the pushes that had completed when it began
    popped,     \* history: the identifiers get_next_job has returned, in order
    rt,         \* a _retry_with_backoff call: its loop variables, and history
    poll        \* history: per job identifier, the latest answer of
                \* GET /jobs/{job_id}

rlVars == <<counter, admittedG, seen, calls>>
cacheVars == <<cache, goc, lastWrite>>
jobVars == <<jobs, queue, upd, wk, pushed, popped>>
vars == <<now, counter, req, admittedG, seen, calls, cache, goc, lastWrite,
          jobs, queue, upd, wk, pushed, popped, rt, poll>>

\* (variant) one per-IP key for all callers
IpKey_Shared(c) == <<"rate_limit:ip", 1>>

\* Redis keys used by rate_limit
IpKey(c) == <<"rate_limit:ip", c>>
GlobalKey == <<"rate_limit:global", 0>>
RLKeys == {IpKey(c) : c \in Callers} \cup {GlobalKey}

NoExpiry == -1
Absent == [count |-> 0, exp |-> NoExpiry, start |-> 0]

IdleReq == [pc |-> "idle", ip |-> 0, endpoint |-> "none", text |-> NoText,
            ip_count |-> 0, global_count |-> 0,
            retry_after |-> 0, cause |-> "none", incIp |-> 0, incG |-> 0,
            status |-> 0]

\* ------------------------------------------------------------------------
\* Redis commands on integer keys
\* ------------------------------------------------------------------------
\* INCR key: creates the key at 1 (without expiry) when it does not exist
RedisIncr(k) ==
    [counter EXCEPT ![k] = IF @.count = 0
                           THEN [count |-> 1, exp |-> NoExpiry, start |-> now]
                           ELSE [@ EXCEPT !.count = @ + 1]]

\* EXPIRE key ttl: no effect on a key that does not exist
RedisExpire(k, ttl) ==
    [counter EXCEPT ![k] = IF @.count = 0 THEN @ ELSE [@ EXCEPT !.exp = now + ttl]]

\* TTL key: -2 when the key does not exist, -1 when it has no expiry
RedisTtl(k) ==
    IF counter[k].count = 0 THEN -2
    ELSE IF counter[k].exp = NoExpiry THEN -1
    ELSE counter[k].exp - now

\* GET key, as read by get_count
get_count(k) == counter[k].count

\* A key is gone once its expiry instant is reached
Expired(entry, t) == entry.count > 0 /\ entry.exp # NoExpiry /\ entry.exp <= t

\* ------------------------------------------------------------------------
\* RedisService.increment
\* ------------------------------------------------------------------------
\* (variant: the expiry is renewed by every increment)
NeedsExpire_EveryIncrement(count, ttl) == ttl # 0

\* "if count == 1 and ttl": the expiry is set by the first increment only
NeedsExpire(count, ttl) == count = 1 /\ ttl # 0

\* ------------------------------------------------------------------------
\* Values and their encodings
\* ------------------------------------------------------------------------
\* ExtractResponse values an extractor can return; the empty graph is one
EmptyGraph == [nodes |-> <<>>, edges |-> <<>>]
Results == {EmptyGraph, [nodes |-> <<"python">>, edges |-> <<>>]}

None == [tag |-> "None"]
NoEntry == [tag |-> "nil"]
NoTask == 0

\* result.model_dump(): the dict of the model's fields
ModelDump(r) == [tag |-> "dict", fields |-> r]

\* datetime.utcnow()
Datetime(t) == [tag |-> "datetime", at |-> t]

\* json.dumps raises TypeError on a dict that holds a datetime object; the
\* fields that can hold one are the two timestamps of a Job
TimestampFields == {"created_at", "completed_at"}

\* (variant) every dict of a model can be written as JSON
JsonSerializable_Any(d) == TRUE

JsonSerializable(d) ==
    \A f \in DOMAIN d.fields \cap TimestampFields : d.fields[f].tag # "datetime"

\* json.dumps / json.loads of a dict of JSON types
JsonDumps(d) == [tag |-> "str", json |-> d]
JsonLoads(j) == j.json

\* ExtractResponse(**cached_data)
FromDict(d) == d.fields

\* truth value of what cache_get returned: a dict with at least one key
DictTruthy(d) == d.tag = "dict" /\ DOMAIN d.fields # {}

\* a str, and its truth value: not empty
Text(chars) == [tag |-> "text", chars |-> chars]
TextTruthy(e) == e.tag = "text" /\ e.chars # ""

\* the empty dict
EmptyDict == [tag |-> "dict", fields |-> <<>>]

\* a timestamp in ISO format, and datetime.fromisoformat
Iso(t) == [tag |-> "iso", at |-> t]
FromIso(x) == [tag |-> "datetime", at |-> x.at]

\* ------------------------------------------------------------------------
\* CacheService
\* ------------------------------------------------------------------------
\* hashlib.sha256(text).hexdigest()[:16]: a fixed function of the text whose
\* range is smaller than its domain
Sha256Prefix(text) == text % HashSpace

_generate_cache_key(text) == <<"cache:extraction:", Sha256Prefix(text)>>
CacheKeys == {_generate_cache_key(x) : x \in Texts \cup {NoText}}

\* redis_service.cache_get: GET, "if value: return json.loads(value)"
cache_get(k) == IF cache[k] = NoEntry THEN None ELSE JsonLoads(cache[k].value)

\* (variant) a lookup that never finds anything
CacheHit_Never(data) == FALSE

\* CacheService.get: "if cached_data: return ExtractResponse(**cached_data)"
CacheHit(data) == DictTruthy(data)

\* (variant) the lifetime argument is ignored in favour of cache_set's default
StoredEntry_DefaultTtl(value, ttl) == [value |-> JsonDumps(value), exp |-> now + 3600]

\* redis_service.cache_set: SETEX key ttl json.dumps(value)
StoredEntry(value, ttl) == [value |-> JsonDumps(value), exp |-> now + ttl]

\* (variant) a store that keeps an entry that is already there
RedisSetex_IfAbsent(k, entry) ==
    IF cache[k] = NoEntry THEN [cache EXCEPT ![k] = entry] ELSE cache

\* SETEX key ttl value
RedisSetex(k, entry) == [cache EXCEPT ![k] = entry]

\* (variant) a delete that empties the whole key space
Del_All(c, k) == [x \in DOMAIN c |-> NoEntry]

\* DEL key on the key space c: the key is gone afterwards, present or not
Del(c, k) == [c EXCEPT ![k] = NoEntry]
RedisDel(k) == Del(cache, k)

\* history: the last operation on a key was a delete that removed an entry
Deleted == -1

\* A get_or_compute call: its position, its argument and its result, and as
\* history: hit (the lookup found an entry), src (the task whose write the
\* lookup read, or what the lookup found in its place), computed and wrote (compute_fn invocations and cache writes
\* made by this call), own (what compute_fn returned to it), fresh (the call
\* has returned and the key's entry has neither expired nor been invalidated
\* since), follows (the calls on the same text that had returned, and were
\* still fresh, when this one began), failed (the step at which a store call
\* of this call raised)
NoCall == [pc |-> "none", text |-> NoText, result |-> None, hit |-> FALSE,
           src |-> NoTask, computed |-> 0, wrote |-> 0, own |-> None,
           fresh |-> FALSE, follows |-> {}, failed |-> "none"]

\* the entry of the call's key has expired or has been invalidated
Disturbed(f) ==
    [f EXCEPT !.fresh = FALSE, !.follows = IF f.pc = "get" THEN {} ELSE @]

\* get_or_compute(text, compute_fn) is entered by task t
Enter(t, text) ==
    [goc EXCEPT ![t] = [NoCall EXCEPT !.pc = "get", !.text = text,
                                       !.follows = {u \in Slots \ {t} :
                                                       /\ goc[u].pc = "returned"
                                                       /\ goc[u].text = text
                                                       /\ goc[u].fresh}]]

\* cached_result = await self.get(text); "if cached_result: return ..."
CacheLookup(t) ==
    /\ goc[t].pc = "get"
    /\ LET k == _generate_cache_key(goc[t].text)
           data == cache_get(k)
       IN goc' = [goc EXCEPT ![t] =
                     IF CacheHit(data)
                     THEN [@ EXCEPT !.pc = "returned", !.result = FromDict(data),
                                    !.hit = TRUE, !.src = lastWrite[k],
                                    !.fresh = TRUE]
                     ELSE [@ EXCEPT !.pc = "compute", !.src = lastWrite[k]]]
    /\ UNCHANGED <<now, rt, poll, req, rlVars, cache, lastWrite, jobVars>>

\* result = await compute_fn(): the extractor returns a graph
ComputeReturns(t, r) ==
    /\ goc[t].pc = "compute"
    /\ goc' = [goc EXCEPT ![t].pc = "set", ![t].result = r, ![t].own = r,
                          ![t].computed = @ + 1]
    /\ UNCHANGED <<now, rt, poll, req, rlVars, cache, lastWrite, jobVars>>

\* (variant) a failed computation is cached like a result
OnComputeError_Cached == "set"

\* get_or_compute has no try/except: an exception of compute_fn leaves it
OnComputeError == "raised"

\* result = await compute_fn(): the extractor raises
ComputeRaises(t) ==
    /\ goc[t].pc = "compute"
    /\ goc' = [goc EXCEPT ![t].pc = OnComputeError, ![t].computed = @ + 1]
    /\ UNCHANGED <<now, rt, poll, req, rlVars, cache, lastWrite, jobVars>>

\* await self.set(text, result); return result
CacheStore(t) ==
    /\ goc[t].pc = "set"
    /\ LET k == _generate_cache_key(goc[t].text)
       IN /\ cache' = RedisSetex(k, StoredEntry(ModelDump(goc[t].result), CACHE_TTL))
          /\ lastWrite' = [lastWrite EXCEPT ![k] = t]
    /\ goc' = [goc EXCEPT ![t].pc = "returned", ![t].wrote = @ + 1,
                          ![t].fresh = TRUE]
    /\ UNCHANGED <<now, rt, poll, req, rlVars, jobVars>>

\* (variant) a store error is swallowed: the lookup counts as a miss and the
\* write as done
OnStoreError_Fallback(pc) == IF pc = "get" THEN "compute" ELSE "returned"

\* get_or_compute has no try/except: an exception of cache_get or cache_set
\* (RuntimeError "Redis not connected", or the client's error) leaves it
OnStoreError(pc) == "raised"

\* the Redis call of a cache operation raises: get_or_compute lets it through
CacheStoreFails(t) ==
    /\ goc[t].pc \in {"get", "set"}
    /\ goc' = [goc EXCEPT ![t].pc = OnStoreError(goc[t].pc), ![t].failed = goc[t].pc]
    /\ UNCHANGED <<now, rt, poll, req, rlVars, cache, lastWrite, jobVars>>

\* CacheService.invalidate(text): DEL of the text's key
Invalidate(text) ==
    /\ LET k == _generate_cache_key(text)
       IN /\ cache' = RedisDel(k)
          /\ lastWrite' = [lastWrite EXCEPT ![k] =
                              IF cache[k] = NoEntry THEN @ ELSE Deleted]
          /\ goc' = [t \in Slots |->
                       IF _generate_cache_key(goc[t].text) = k
                       THEN Disturbed(goc[t]) ELSE goc[t]]
    /\ UNCHANGED <<now, rt, poll, req, rlVars, jobVars>>

\* get_or_compute called on its own, by the lowest free task
Call(t, text) ==
    /\ goc[t].pc = "none"
    /\ req[t].pc = "idle"
    /\ \A u \in Slots : u < t => goc[u].pc # "none"
    /\ goc' = Enter(t, text)
    /\ UNCHANGED <<now, rt, poll, req, rlVars, cache, lastWrite, jobVars>>

\* ------------------------------------------------------------------------
\* rate_limit
\* ------------------------------------------------------------------------
IpExceeded(count) == count > PER_IP_REQUESTS

\* (variant: the global comparison is off by one)
GlobalExceeded_OffByOne(count) == count > GLOBAL_REQUESTS + 1

GlobalExceeded(count) == count > GLOBAL_REQUESTS

\* (variant: the TTL is passed on without the floor of 1)
RetryAfter_NoFloor(ttl) == ttl

\* retry_after = max(ttl, 1)
RetryAfter(ttl) == Max(ttl, 1)

\* (variant: the global counter is incremented before the per-IP verdict)
AfterIpCount_GlobalFirst(count) == "rl_g_incr"

\* where rate_limit goes once increment(ip_key) has returned count
AfterIpCount(count) == IF IpExceeded(count) THEN "rl_ip_ttl" ELSE "rl_g_incr"

\* where rate_limit goes once increment(global_key) has returned count
AfterGlobalCount(count) == IF GlobalExceeded(count) THEN "rl_g_ttl" ELSE "admitted"

\* A request for an endpoint arrives from caller c and takes the lowest free
\* slot (the slots are interchangeable); rate_limit runs first (dependency)
Arrive(s, c, ep, text) ==
    /\ req[s].pc = "idle"
    /\ goc[s].pc = "none"
    /\ \A t \in Slots : t < s => req[t].pc # "idle"
    /\ req' = [req EXCEPT ![s] = [IdleReq EXCEPT !.pc = "rl_ip_incr", !.ip = c,
                                                !.endpoint = ep, !.text = text]]
    /\ seen' = seen \cup {c}
    /\ UNCHANGED <<now, rt, poll, counter, admittedG, calls, cacheVars, jobVars>>

\* rate_limit called on its own
Start(s, c) == Arrive(s, c, "rate_limit", NoText)

\* increment(ip_key): await self.redis.incr(key)
IpIncr(s) ==
    /\ req[s].pc = "rl_ip_incr"
    /\ LET k == IpKey(req[s].ip)
           count == counter[k].count + 1
       IN /\ counter' = RedisIncr(k)
          /\ req' = [req EXCEPT ![s].ip_count = count,
                                ![s].incIp = @ + 1,
                                ![s].pc = IF NeedsExpire(count, PER_IP_WINDOW)
                                          THEN "rl_ip_expire"
                                          ELSE AfterIpCount(count)]
    /\ UNCHANGED <<now, rt, poll, admittedG, calls, seen, cacheVars, jobVars>>

\* increment(ip_key): await self.redis.expire(key, ttl)
IpExpire(s) ==
    /\ req[s].pc = "rl_ip_expire"
    /\ counter' = RedisExpire(IpKey(req[s].ip), PER_IP_WINDOW)
    /\ req' = [req EXCEPT ![s].pc = AfterIpCount(req[s].ip_count)]
    /\ UNCHANGED <<now, rt, poll, admittedG, calls, seen, cacheVars, jobVars>>

\* per-IP rejection: ttl = await get_ttl(ip_key); raise 429
IpTtl(s) ==
    /\ req[s].pc = "rl_ip_ttl"
    /\ req' = [req EXCEPT ![s].retry_after = RetryAfter(RedisTtl(IpKey(req[s].ip))),
                          ![s].cause = "ip",
                          ![s].status = 429,
                          ![s].pc = "rejected"]
    /\ UNCHANGED <<now, rt, poll, counter, admittedG, calls, seen, cacheVars, jobVars>>

\* increment(global_key): await self.redis.incr(key)
GlobalIncr(s) ==
    /\ req[s].pc = "rl_g_incr"
    /\ LET count == counter[GlobalKey].count + 1
           next == IF NeedsExpire(count, GLOBAL_WINDOW)
                   THEN "rl_g_expire"
                   ELSE AfterGlobalCount(count)
       IN /\ counter' = RedisIncr(GlobalKey)
          /\ req' = [req EXCEPT ![s].global_count = count,
                                ![s].incG = @ + 1,
                                ![s].pc = next]
          /\ admittedG' = IF next = "admitted" THEN admittedG + 1 ELSE admittedG
    /\ UNCHANGED <<now, rt, poll, seen, calls, cacheVars, jobVars>>

\* increment(global_key): await self.redis.expire(key, ttl)
GlobalExpire(s) ==
    /\ req[s].pc = "rl_g_expire"
    /\ LET next == AfterGlobalCount(req[s].global_count)
       IN /\ counter' = RedisExpire(GlobalKey, GLOBAL_WINDOW)
          /\ req' = [req EXCEPT ![s].pc = next]
          /\ admittedG' = IF next = "admitted" THEN admittedG + 1 ELSE admittedG
    /\ UNCHANGED <<now, rt, poll, seen, calls, cacheVars, jobVars>>

\* global rejection: ttl = await get_ttl(global_key); raise 429
GlobalTtl(s) ==
    /\ req[s].pc = "rl_g_ttl"
    /\ req' = [req EXCEPT ![s].retry_after = RetryAfter(RedisTtl(GlobalKey)),
                          ![s].cause = "global",
                          ![s].status = 429,
                          ![s].pc = "rejected"]
    /\ UNCHANGED <<now, rt, poll, counter, admittedG, calls, seen, cacheVars, jobVars>>

\* The Redis call a request is suspended on raises (connection lost, or the
\* request's task is cancelled while it waits): the exception leaves
\* rate_limit and the request ends with an error
RateLimitAwaits == {"rl_ip_incr", "rl_ip_expire", "rl_ip_ttl",
                    "rl_g_incr", "rl_g_expire", "rl_g_ttl"}

StoreFails(s) ==
    /\ req[s].pc \in RateLimitAwaits
    /\ req' = [req EXCEPT ![s] = [IdleReq EXCEPT !.pc = "error", !.ip = req[s].ip]]
    /\ UNCHANGED <<now, rt, poll, counter, admittedG, calls, seen, cacheVars, jobVars>>

\* ------------------------------------------------------------------------
\* JobService: records
\* ------------------------------------------------------------------------
Workers == {1, 2}
JobId(j) == <<"uuid", j>>
JobIds == {JobId(j) : j \in Slots}
NoJobId == JobId(0)
Statuses == {"pending", "processing", "completed", "failed"}
Terminal == {"completed", "failed"}

NoUpdate == [id |-> NoJobId, status |-> "none", result |-> None, error |-> None,
             outcome |-> "none", read |-> None, built |-> None, raised |-> None]
\* a worker after start(): Redis connected, running = True, inside its first
\* get_next_job call; last is the way its latest loop iteration ended
IdleWorker == [pc |-> "poll", job_id |-> NoJobId, error |-> None,
               running |-> TRUE, stop |-> "no", since |-> 0, last |-> "none"]
NotPushed == [st |-> "no", before |-> {}]

\* no _retry_with_backoff call yet, no status query yet
NoRetry == [pc |-> "idle", max_retries |-> 0, base_delay |-> 0, attempt |-> 0,
            invocations |-> 0, outcomes |-> <<>>, waits |-> <<>>,
            last_exception |-> None, result |-> None]
NoPoll == [code |-> 0, body |-> None]

JobsIdle ==
    /\ rt = NoRetry
    /\ poll = [id \in JobIds \cup {NoJobId} |-> NoPoll]
    /\ upd = NoUpdate
    /\ wk = [w \in Workers |-> IdleWorker]
    /\ pushed = [id \in JobIds |-> NotPushed]
    /\ popped = <<>>

\* the text of the jobs in the store
JobText == 1

\* a job record as get_job expects to find it under job:{job_id}: the
\* timestamps as ISO strings, the fields that go with the status
JobDict(id, st) ==
    [tag |-> "dict",
     fields |-> [job_id |-> id, text |-> JobText, status |-> st,
                 created_at |-> Iso(0),
                 completed_at |-> IF st \in Terminal THEN Iso(0) ELSE None,
                 result |-> IF st = "completed" THEN ModelDump(EmptyGraph) ELSE None,
                 error |-> IF st = "failed" THEN Text("boom") ELSE None]]

\* (variant) the key of an expired record still answers, with a failed job
job_cache_get_Tombstone(id) ==
    IF id \notin DOMAIN jobs THEN None
    ELSE IF jobs[id] = NoEntry THEN JobDict(id, "failed")
    ELSE JsonLoads(jobs[id].value)

\* redis_service.cache_get(f"job:{job_id}")
job_cache_get(id) ==
    IF id \notin DOMAIN jobs \/ jobs[id] = NoEntry THEN None
    ELSE JsonLoads(jobs[id].value)

\* get_job, from "Convert ISO datetime strings back" to Job(**job_data)
ParseJob(data) ==
    [data.fields EXCEPT !.created_at = FromIso(@),
                        !.completed_at = IF @ = None THEN @ ELSE FromIso(@)]

\* (variant) an identifier without record reads as a new pending job
get_job_OrNew(id) ==
    IF DictTruthy(job_cache_get(id)) THEN ParseJob(job_cache_get(id))
    ELSE [job_id |-> id, text |-> NoText, status |-> "pending",
          created_at |-> Datetime(now), completed_at |-> None,
          result |-> None, error |-> None]

\* JobService.get_job: "if not job_data: return None"
get_job(id) ==
    IF DictTruthy(job_cache_get(id)) THEN ParseJob(job_cache_get(id)) ELSE None

\* update_job_status, "Update job fields": no look at the current status;
\* result and error are taken over only when they are truthy
UpdatedJob(job, status, result, error) ==
    [job EXCEPT !.status = status,
                !.completed_at = IF status \in Terminal THEN Datetime(now) ELSE @,
                !.result = IF DictTruthy(result) THEN result ELSE @,
                !.error = IF TextTruthy(error) THEN error ELSE @]

\* update_job_status(job_id, status, result, error) as a whole: ValueError
\* when get_job finds nothing; else the job is updated in memory and handed
\* to cache_set, whose json.dumps raises TypeError on the datetime objects
\* that model_dump() leaves in created_at and completed_at
Update(id, status, result, error) ==
    LET job == get_job(id)
    IN IF job = None
       THEN [NoUpdate EXCEPT !.id = id, !.status = status, !.result = result,
                             !.error = error, !.outcome = "not_found",
                             !.raised = Text("Job not found")]
       ELSE LET b == UpdatedJob(job, status, result, error)
            IN [id |-> id, status |-> status, result |-> result, error |-> error,
                outcome |-> IF JsonSerializable(ModelDump(b))
                            THEN "ok" ELSE "type_error",
                read |-> job, built |-> b,
                raised |-> IF JsonSerializable(ModelDump(b)) THEN None
                           ELSE Text("Object of type datetime is not JSON serializable")]

\* the job store after an update_job_status call that ended as u
JobsAfter(u) ==
    IF u.outcome = "ok"
    THEN [jobs EXCEPT ![u.id] = StoredEntry(ModelDump(u.built), JOB_TTL)]
    ELSE jobs

\* arguments update_job_status is called with
UpdResults == {None, EmptyDict, ModelDump(EmptyGraph)}
UpdErrors == {None, Text(""), Text("boom")}

\* update_job_status called on its own
UpdateJobStatus(id, status, result, error) ==
    /\ upd' = Update(id, status, result, error)
    /\ jobs' = JobsAfter(upd')
    /\ UNCHANGED <<now, rt, poll, req, rlVars, cacheVars, queue, wk, pushed, popped>>

\* ------------------------------------------------------------------------
\* JobService: queue, and the worker that serves it
\* ------------------------------------------------------------------------
\* (variant) items are added at the head of the list
RedisRpush_Lpush(q, item) == <<item>> \o q

\* RPUSH queue item
RedisRpush(q, item) == Append(q, item)

\* the item create_job pushes for a job: {"job_id": job_id}
QueueItem(id) == [tag |-> "dict", fields |-> [job_id |-> id]]

\* redis_service.queue_push is called for an identifier: json.dumps(item)
PushBegin(id) ==
    /\ pushed[id].st = "no"
    /\ pushed' = [pushed EXCEPT ![id] =
                     [st |-> "flight",
                      before |-> {a \in JobIds : pushed[a].st = "done"}]]
    /\ UNCHANGED <<now, rt, poll, req, rlVars, cacheVars, jobs, queue, upd, wk, popped>>

\* await self.redis.rpush(queue_name, json_item)
PushApply(id) ==
    /\ pushed[id].st = "flight"
    /\ queue' = RedisRpush(queue, JsonDumps(QueueItem(id)))
    /\ pushed' = [pushed EXCEPT ![id].st = "done"]
    /\ UNCHANGED <<now, rt, poll, req, rlVars, cacheVars, jobs, upd, wk, popped>>

\* redis_service.redis is set: between connect() and the end of disconnect()
Connected(w) == wk[w].stop # "done"

\* (variant) the loop goes on whatever the flag says
LoopHead_Always(worker, last) ==
    [worker EXCEPT !.pc = "poll", !.job_id = NoJobId, !.error = None,
                   !.since = now, !.last = last]

\* "while self.running:" at the top of process_loop, reached after an
\* iteration that ended as last: the next get_next_job call, or the end of
\* the loop
LoopHead(worker, last) ==
    IF worker.running
    THEN [worker EXCEPT !.pc = "poll", !.job_id = NoJobId, !.error = None,
                        !.since = now, !.last = last]
    ELSE [worker EXCEPT !.pc = "exited", !.job_id = NoJobId, !.error = None,
                        !.last = last]

\* process_loop, "except Exception": print, then await asyncio.sleep(1)
AfterLoopError(worker) ==
    [worker EXCEPT !.pc = "pause", !.since = now, !.last = "raised"]

\* (variant) BLPOP with timeout 0: no deadline
NoDeadline == -1
BlpopDeadline_Forever(since, timeout) == NoDeadline

\* BLPOP key timeout: nil once timeout seconds have passed without an item;
\* timeout 0 blocks for ever
BlpopDeadline(since, timeout) ==
    IF timeout = 0 THEN NoDeadline ELSE since + timeout

\* (variant) the head is read and left in the list
RedisBlpop_Peek(q) == q

\* BLPOP key timeout on a list with an item: the list without its head
RedisBlpop(q) == Tail(q)

\* process_loop: job_id = await job_service.get_next_job(timeout=5), with an
\* item in the list: BLPOP takes the head, json.loads, job_data["job_id"]
GetNextJob(w) ==
    /\ wk[w].pc = "poll"
    /\ Connected(w)
    /\ queue # <<>>
    /\ LET job_id == JsonLoads(Head(queue)).fields.job_id
       IN /\ wk' = [wk EXCEPT ![w].pc = "got", ![w].job_id = job_id]
          /\ popped' = Append(popped, job_id)
    /\ queue' = RedisBlpop(queue)
    /\ UNCHANGED <<now, rt, poll, req, rlVars, cacheVars, jobs, upd, pushed>>

\* get_next_job on a list that stayed empty until the deadline: BLPOP answers
\* nil, queue_pop and get_next_job return None, "if not job_id: continue"
GetNextJobTimeout(w) ==
    /\ wk[w].pc = "poll"
    /\ Connected(w)
    /\ queue = <<>>
    /\ BlpopDeadline(wk[w].since, POLL_TIMEOUT) # NoDeadline
    /\ now >= BlpopDeadline(wk[w].since, POLL_TIMEOUT)
    /\ wk' = [wk EXCEPT ![w] = LoopHead(@, "timeout")]
    /\ UNCHANGED <<now, rt, poll, req, rlVars, cacheVars, jobs, queue, upd,
                   pushed, popped>>

\* the connection is closed under a get_next_job call: the call raises
GetNextJobAborted(w) ==
    /\ wk[w].pc = "poll"
    /\ ~Connected(w)
    /\ wk' = [wk EXCEPT ![w] = AfterLoopError(@)]
    /\ UNCHANGED <<now, rt, poll, req, rlVars, cacheVars, jobs, queue, upd,
                   pushed, popped>>

\* (variant) no look at what get_job returned
AfterGetJob_NoCheck(worker, job) == [worker EXCEPT !.pc = "set_processing"]

\* process_job: "if not job: print; return", else on to the try block
AfterGetJob(worker, job) ==
    IF job = None THEN LoopHead(worker, "skipped")
    ELSE [worker EXCEPT !.pc = "set_processing"]

\* process_job: job = await job_service.get_job(job_id); "if not job: return".
\* The call is outside the try block: RuntimeError("Redis not connected")
\* goes to process_loop
ProcessJobGet(w) ==
    /\ wk[w].pc = "got"
    /\ wk' = [wk EXCEPT ![w] =
                IF ~Connected(w) THEN AfterLoopError(@)
                ELSE AfterGetJob(@, get_job(wk[w].job_id))]
    /\ UNCHANGED <<now, rt, poll, req, rlVars, cacheVars, jobs, queue, upd,
                   pushed, popped>>

\* update_job_status as a worker calls it: RuntimeError when its Redis
\* connection is closed
WorkerUpdate(w, status, result, error) ==
    IF Connected(w) THEN Update(wk[w].job_id, status, result, error)
    ELSE [NoUpdate EXCEPT !.id = wk[w].job_id, !.status = status,
                          !.result = result, !.error = error,
                          !.outcome = "not_connected",
                          !.raised = Text("Redis not connected")]

\* (variant) the whole message is kept
StrPrefix_Whole(chars, n) == chars

\* chars[:n] of a str
StrPrefix(chars, n) == IF Len(chars) <= n THEN chars ELSE SubSeq(chars, 1, n)

\* "error_msg = str(e)[:500]" for the exception an update_job_status call
\* ended with
ERROR_LIMIT == 500
ErrorMessage(u) == Text(StrPrefix(u.raised.chars, ERROR_LIMIT))

\* messages of the exceptions a store call can end with: of every length
\* around the limit, in two alphabets
MaxOverlong == 2
RECURSIVE Repeat(_, _)
Repeat(unit, n) == IF n = 0 THEN "" ELSE unit \o Repeat(unit, n - 1)
MessageOfLen(unit, n) == SubSeq(Repeat(unit, n \div Len(unit) + 1), 1, n)
MessageLens == {0, 1, ERROR_LIMIT - 1, ERROR_LIMIT}
                 \cup (ERROR_LIMIT + 1 .. ERROR_LIMIT + MaxOverlong)
Messages == {MessageOfLen(unit, n) : unit \in {"abcdefg", "0123456789"},
                                     n \in MessageLens}

\* (variant) the extraction starts whether or not the status was written
AfterSetProcessing_Anyway(worker, u) == [worker EXCEPT !.pc = "extract"]

\* process_job: after update_job_status(job_id, PROCESSING) the try block goes
\* on to the extraction; an exception takes the worker to the except branch
AfterSetProcessing(worker, u) ==
    IF u.outcome = "ok" THEN [worker EXCEPT !.pc = "extract"]
    ELSE [worker EXCEPT !.pc = "set_failed", !.error = ErrorMessage(u)]

\* process_job: await update_job_status(job_id, PROCESSING) inside the try
ProcessJobSetProcessing(w) ==
    /\ wk[w].pc = "set_processing"
    /\ upd' = WorkerUpdate(w, "processing", None, None)
    /\ jobs' = JobsAfter(upd')
    /\ wk' = [wk EXCEPT ![w] = AfterSetProcessing(@, upd')]
    /\ UNCHANGED <<now, rt, poll, req, rlVars, cacheVars, queue, pushed, popped>>

\* the same call, ended by an error of the store: the GET of get_job raises
\* a redis exception with the message e
ProcessJobStoreError(w, e) ==
    /\ wk[w].pc = "set_processing"
    /\ Connected(w)
    /\ upd' = [NoUpdate EXCEPT !.id = wk[w].job_id, !.status = "processing",
                               !.outcome = "store_error", !.raised = Text(e)]
    /\ wk' = [wk EXCEPT ![w] = AfterSetProcessing(@, upd')]
    /\ UNCHANGED <<now, rt, poll, req, rlVars, cacheVars, jobs, queue, pushed,
                   popped>>

\* process_job, except branch: await update_job_status(job_id, FAILED,
\* error=error_msg); when this call raises too the exception leaves
\* process_job and is caught in process_loop
ProcessJobSetFailed(w) ==
    /\ wk[w].pc = "set_failed"
    /\ upd' = WorkerUpdate(w, "failed", None, wk[w].error)
    /\ jobs' = JobsAfter(upd')
    /\ wk' = [wk EXCEPT ![w] = IF upd'.outcome = "ok"
                               THEN LoopHead(@, "recorded")
                               ELSE AfterLoopError(@)]
    /\ UNCHANGED <<now, rt, poll, req, rlVars, cacheVars, queue, pushed, popped>>

\* process_loop: asyncio.sleep(1) is over, back to "while self.running:"
PauseDone(w) ==
    /\ wk[w].pc = "pause"
    /\ now >= wk[w].since + LOOP_PAUSE
    /\ wk' = [wk EXCEPT ![w] = LoopHead(@, wk[w].last)]
    /\ UNCHANGED <<now, rt, poll, req, rlVars, cacheVars, jobs, queue, upd,
                   pushed, popped>>

\* SIGINT or SIGTERM: signal_handler creates the task worker.stop(), which
\* sets running = False and awaits redis_service.disconnect()
StopSignal(w) ==
    /\ wk[w].stop = "no"
    /\ wk[w].pc # "stopped"
    /\ wk' = [wk EXCEPT ![w].running = FALSE, ![w].stop = "closing"]
    /\ UNCHANGED <<now, rt, poll, req, rlVars, cacheVars, jobs, queue, upd,
                   pushed, popped>>

\* redis_service.disconnect() has closed client and pool: redis = None
StopDisconnect(w) ==
    /\ wk[w].stop = "closing"
    /\ wk' = [wk EXCEPT ![w].stop = "done"]
    /\ UNCHANGED <<now, rt, poll, req, rlVars, cacheVars, jobs, queue, upd,
                   pushed, popped>>

\* main(): start() has returned because the loop ended; "finally: await
\* worker.stop()" disconnects if that has not happened yet
MainFinally(w) ==
    /\ wk[w].pc = "exited"
    /\ wk' = [wk EXCEPT ![w].pc = "stopped", ![w].running = FALSE,
                        ![w].stop = "done"]
    /\ UNCHANGED <<now, rt, poll, req, rlVars, cacheVars, jobs, queue, upd,
                   pushed, popped>>

\* ------------------------------------------------------------------------
\* GeminiService._retry_with_backoff(func, max_retries, base_delay)
\* ------------------------------------------------------------------------
\* what one invocation of func can do: return, raise ResourceExhausted,
\* raise another Exception
FuncOutcomes == {"ok", "quota", "generic"}
BaseDelays == {1, 2}

\* the exception raised, or the value returned, by invocation number i
Raised(class, i) == [tag |-> "exception", class |-> class, at |-> i]
Returned(i) == [tag |-> "value", at |-> i]

\* (variant) one attempt fewer
Attempts_NoExtra(max_retries) == max_retries

\* "for attempt in range(max_retries + 1)"
Attempts(max_retries) == max_retries + 1

\* (variant) a wait after every failed attempt
WaitFollows_Always(attempt, max_retries) == TRUE

\* "if attempt < max_retries", the same test in both except branches
WaitFollows(attempt, max_retries) == attempt < max_retries

\* (variant) the quota branch waits twice as long
Delay_QuotaDoubled(class, base_delay, attempt) ==
    IF class = "quota" THEN 2 * base_delay * (2 ^ attempt)
    ELSE base_delay * (2 ^ attempt)

\* "delay = base_delay * (2 ** attempt)", written once in the
\* ResourceExhausted branch and once in the Exception branch
Delay(class, base_delay, attempt) ==
    CASE class = "quota" -> base_delay * (2 ^ attempt)
      [] OTHER -> base_delay * (2 ^ attempt)

\* the loop moves on from attempt r.attempt: the next iteration, or, when
\* range() is used up, "raise last_exception"
NextIteration(r) ==
    IF r.attempt + 1 < Attempts(r.max_retries)
    THEN [r EXCEPT !.pc = "call", !.attempt = @ + 1]
    ELSE [r EXCEPT !.pc = "raised", !.result = r.last_exception]

\* the call is made: last_exception = None, and the loop is entered
RetryCall(max_retries, base_delay) ==
    /\ rt.pc = "idle"
    /\ rt' = IF Attempts(max_retries) > 0
             THEN [NoRetry EXCEPT !.pc = "call", !.max_retries = max_retries,
                                  !.base_delay = base_delay]
             ELSE [NoRetry EXCEPT !.pc = "raised", !.max_retries = max_retries,
                                  !.base_delay = base_delay]
    /\ UNCHANGED <<now, poll, req, rlVars, cacheVars, jobVars>>

\* the loop body for the call r: "return await func()" and the except branch
\* that catches what it raised
AfterInvoke(r, outcome) ==
    LET i == r.invocations + 1
        called == [r EXCEPT !.invocations = i,
                            !.outcomes = Append(@, outcome)]
    IN IF outcome = "ok"
       THEN [called EXCEPT !.pc = "returned", !.result = Returned(i)]
       ELSE LET failed == [called EXCEPT
                             !.last_exception = Raised(outcome, i)]
            IN IF WaitFollows(r.attempt, r.max_retries)
               THEN [failed EXCEPT
                       !.pc = "sleep",
                       !.waits = Append(@, Delay(outcome, r.base_delay,
                                                 r.attempt))]
               ELSE NextIteration(failed)

\* one invocation of func in a call made on its own
RetryInvoke(outcome) ==
    /\ rt.pc = "call"
    /\ rt' = AfterInvoke(rt, outcome)
    /\ UNCHANGED <<now, poll, req, rlVars, cacheVars, jobVars>>

\* "await asyncio.sleep(delay)" is over
RetrySleepDone ==
    /\ rt.pc = "sleep"
    /\ rt' = NextIteration(rt)
    /\ UNCHANGED <<now, poll, req, rlVars, cacheVars, jobVars>>

\* ------------------------------------------------------------------------
\* LLMExtractor.extract as the compute_fn of get_or_compute
\* ------------------------------------------------------------------------
\* settings.max_retries, and the default of base_delay
SETTINGS_MAX_RETRIES == 3
BASE_DELAY == 1

\* generate_structured: "max_retries=settings.max_retries"
RetriesOfGenerate == SETTINGS_MAX_RETRIES

\* extract -> generate_structured -> _retry_with_backoff(func=lambda:
\* self._call_gemini(...), max_retries=settings.max_retries) is entered by
\* task t, whose get_or_compute missed the cache
GenerateStructured(t) ==
    /\ goc[t].pc = "compute"
    /\ rt.pc = "idle"
    /\ rt' = [NoRetry EXCEPT !.pc = "call", !.max_retries = RetriesOfGenerate,
                             !.base_delay = BASE_DELAY]
    /\ goc' = [goc EXCEPT ![t].pc = "llm"]
    /\ UNCHANGED <<now, poll, req, rlVars, cache, lastWrite, jobVars>>

\* _call_gemini: one generate_content request to the backend, which answers,
\* refuses for quota, or fails otherwise (an answer that does not parse
\* included)
CallGemini(outcome) ==
    /\ rt.pc = "call"
    /\ \E t \in Slots : goc[t].pc = "llm"
    /\ rt' = AfterInvoke(rt, outcome)
    /\ calls' = calls + 1
    /\ UNCHANGED <<now, poll, req, counter, admittedG, seen, cacheVars, jobVars>>

\* generate_structured returns the validated graph to get_or_compute
GenerateReturns(t, r) ==
    /\ goc[t].pc = "llm"
    /\ rt.pc = "returned"
    /\ goc' = [goc EXCEPT ![t].pc = "set", ![t].result = r, ![t].own = r,
                          ![t].computed = @ + 1]
    /\ rt' = NoRetry
    /\ UNCHANGED <<now, poll, req, rlVars, cache, lastWrite, jobVars>>

\* "raise last_exception" leaves generate_structured, extract and
\* get_or_compute
GenerateRaises(t) ==
    /\ goc[t].pc = "llm"
    /\ rt.pc = "raised"
    /\ goc' = [goc EXCEPT ![t].pc = OnComputeError, ![t].computed = @ + 1]
    /\ rt' = NoRetry
    /\ UNCHANGED <<now, poll, req, rlVars, cache, lastWrite, jobVars>>

\* ------------------------------------------------------------------------
\* GET /jobs/{job_id}
\* ------------------------------------------------------------------------
\* (variant) a failed job reads as not started
Progress_FailedZero(status) ==
    CASE status = "pending" -> 0 [] status = "processing" -> 50
      [] status = "completed" -> 100 [] status = "failed" -> 0

\* "Calculate progress": the dict indexed by job.status
Progress(status) ==
    CASE status = "pending" -> 0 [] status = "processing" -> 50
      [] status = "completed" -> 100 [] status = "failed" -> 100

\* HTTPException(404, detail=f"Job {job_id} not found or expired")
NotFound(id) == [tag |-> "detail", job_id |-> id]

\* get_job_status(job_id): get_job, 404 when there is no job, else the
\* JobStatusResponse built from the job and its progress
GetJobStatus(id) ==
    /\ LET job == get_job(id)
       IN poll' = [poll EXCEPT ![id] =
                     IF job = None
                     THEN [code |-> 404, body |-> NotFound(id)]
                     ELSE [code |-> 200,
                           body |-> [job_id |-> job.job_id, status |-> job.status,
                                     created_at |-> job.created_at,
                                     completed_at |-> job.completed_at,
                                     result |-> job.result, error |-> job.error,
                                     progress |-> Progress(job.status)]]]
    /\ UNCHANGED <<now, rt, req, rlVars, cacheVars, jobVars>>

\* Time passes; Redis drops every key whose expiry instant has been reached
EntryExpired(entry, t) == entry # NoEntry /\ entry.exp <= t

Advance(d) ==
    /\ now' = now + d
    /\ counter' = [k \in RLKeys |->
                     IF Expired(counter[k], now') THEN Absent ELSE counter[k]]
    /\ admittedG' = IF Expired(counter[GlobalKey], now') THEN 0 ELSE admittedG
    /\ calls' = IF Expired(counter[GlobalKey], now') THEN 0 ELSE calls
    /\ cache' = [k \in CacheKeys |->
                   IF EntryExpired(cache[k], now') THEN NoEntry ELSE cache[k]]
    /\ lastWrite' = [k \in CacheKeys |->
                       IF EntryExpired(cache[k], now') THEN NoTask ELSE lastWrite[k]]
    /\ goc' = [t \in Slots |->
                 IF EntryExpired(cache[_generate_cache_key(goc[t].text)], now')
                 THEN Disturbed(goc[t]) ELSE goc[t]]
    /\ jobs' = [j \in DOMAIN jobs |->
                  IF EntryExpired(jobs[j], now') THEN NoEntry ELSE jobs[j]]
    /\ UNCHANGED <<req, seen, queue, upd, wk, pushed, popped, rt, poll>>

\* the clock of the admission limiter's runs
Tick ==
    /\ now + TimeStep <= MaxTicks * TimeStep
    /\ Advance(TimeStep)

\* The clock of the workers' runs moves from one deadline to the next: the
\* return of a BLPOP that found nothing, the end of a sleep, the expiry of a
\* job record.  A timer that is due fires before the clock moves on.
TimerDeadlines ==
    ({BlpopDeadline(wk[w].since, POLL_TIMEOUT) :
         w \in {v \in Workers : wk[v].pc = "poll" /\ Connected(v)}} \ {NoDeadline})
    \cup {wk[w].since + LOOP_PAUSE : w \in {v \in Workers : wk[v].pc = "pause"}}

JobExpiries == {jobs[j].exp : j \in {i \in DOMAIN jobs : jobs[i] # NoEntry}}

Horizon == 2 * POLL_TIMEOUT

WorkerTick ==
    /\ \A d \in TimerDeadlines : d > now
    /\ TimerDeadlines \cup JobExpiries # {}
    /\ LET next == CHOOSE d \in TimerDeadlines \cup JobExpiries :
                      \A e \in TimerDeadlines \cup JobExpiries : d <= e
       IN /\ next <= Horizon \/ next \in JobExpiries
          /\ Advance(next - now)

\* The store as it is left by prior[c] requests of each caller c, all served
\* one after the other within second 0: a caller's count is the number of its
\* requests, the global count is the number of those that passed the per-IP
\* check, and every key was given its expiry by its first increment.  The
\* callers are interchangeable, so they are numbered by decreasing traffic.
RECURSIVE SumPassed(_, _)
SumPassed(prior, cs) ==
    IF cs = {} THEN 0
    ELSE LET c == CHOOSE x \in cs : TRUE
         IN (IF prior[c] > PER_IP_REQUESTS THEN PER_IP_REQUESTS ELSE prior[c])
            + SumPassed(prior, cs \ {c})

AfterPrior(n, window) ==
    IF n = 0 THEN Absent ELSE [count |-> n, exp |-> window, start |-> 0]

Init ==
    /\ now = 0
    /\ \E prior \in [Callers -> PriorCounts] :
         LET g == SumPassed(prior, Callers)
         IN /\ \A c, d \in Callers : c < d => prior[c] >= prior[d]
            /\ counter = [k \in RLKeys |->
                            IF k = GlobalKey THEN AfterPrior(g, GLOBAL_WINDOW)
                            ELSE AfterPrior(prior[k[2]], PER_IP_WINDOW)]
            /\ admittedG = IF g > GLOBAL_REQUESTS THEN GLOBAL_REQUESTS ELSE g
            /\ seen = {c \in Callers : prior[c] > 0}
    /\ calls = 0
    /\ req = [s \in Slots |-> IdleReq]
    /\ cache = [k \in CacheKeys |-> NoEntry]
    /\ goc = [t \in Slots |-> NoCall]
    /\ lastWrite = [k \in CacheKeys |-> NoTask]
    /\ jobs = <<>>
    /\ queue = <<>>
    /\ JobsIdle

Next ==
    \/ \E s \in Slots, c \in Callers : Start(s, c)
    \/ \E s \in Slots : IpIncr(s)
    \/ \E s \in Slots : IpExpire(s)
    \/ \E s \in Slots : IpTtl(s)
    \/ \E s \in Slots : GlobalIncr(s)
    \/ \E s \in Slots : GlobalExpire(s)
    \/ \E s \in Slots : GlobalTtl(s)
    \/ \E s \in Slots : StoreFails(s)
    \/ Tick

Spec == Init /\ [][Next]_vars

\* The result cache on its own: get_or_compute calls, invalidations, and a
\* clock that moves in steps of half the cache lifetime
CacheStep == CACHE_TTL \div 2

CacheTick ==
    /\ now + CacheStep <= MaxTicks * CacheStep
    /\ Advance(CacheStep)

InitCache ==
    /\ now = 0
    /\ counter = [k \in RLKeys |-> Absent]
    /\ admittedG = 0
    /\ seen = {}
    /\ calls = 0
    /\ req = [s \in Slots |-> IdleReq]
    /\ cache = [k \in CacheKeys |-> NoEntry]
    /\ goc = [t \in Slots |-> NoCall]
    /\ lastWrite = [k \in CacheKeys |-> NoTask]
    /\ jobs = <<>>
    /\ queue = <<>>
    /\ JobsIdle

NextCache ==
    \/ \E t \in Slots, x \in Texts : Call(t, x)
    \/ \E t \in Slots : CacheLookup(t)
    \/ \E t \in Slots, r \in Results : ComputeReturns(t, r)
    \/ \E t \in Slots : ComputeRaises(t)
    \/ \E t \in Slots : CacheStore(t)
    \/ \E t \in Slots : CacheStoreFails(t)
    \/ \E x \in Texts : Invalidate(x)
    \/ CacheTick

SpecCache == InitCache /\ [][NextCache]_vars

\* ------------------------------------------------------------------------
\* The two rate-limited endpoints
\* ------------------------------------------------------------------------
Endpoints == {"extract", "jobs"}

\* (variant) the endpoint function runs whatever the dependency decided
HandlerMayRun_Always(pc) == pc \in {"admitted", "rejected"}

\* dependencies=[Depends(rate_limit)]: the endpoint function runs only when
\* the dependency has returned
HandlerMayRun(pc) == pc = "admitted"

\* POST /extract: cache_service.get_or_compute(text, extractor.extract)
ExtractHandler(s) ==
    /\ HandlerMayRun(req[s].pc)
    /\ req[s].endpoint = "extract"
    /\ goc[s].pc = "none"
    /\ goc' = Enter(s, req[s].text)
    /\ req' = [req EXCEPT ![s].pc = "extracting"]
    /\ UNCHANGED <<now, rt, poll, rlVars, cache, lastWrite, jobVars>>

\* POST /extract: "return result", or "except Exception: raise 500"
ExtractRespond(s) ==
    /\ req[s].pc = "extracting"
    /\ goc[s].pc \in {"returned", "raised"}
    /\ req' = [req EXCEPT ![s].pc = "responded",
                          ![s].status = IF goc[s].pc = "returned" THEN 200 ELSE 500]
    /\ UNCHANGED <<now, rt, poll, rlVars, cacheVars, jobVars>>

\* Job(job_id=str(uuid.uuid4()), text=text, status=PENDING, created_at=utcnow())
NewJob(id, text) ==
    [job_id |-> id, text |-> text, status |-> "pending",
     created_at |-> Datetime(now), completed_at |-> None,
     result |-> None, error |-> None]

\* POST /jobs: job_service.create_job(text).  Its first Redis call is
\* cache_set(job_key, job.model_dump(), ttl=JOB_TTL): model_dump() leaves
\* created_at a datetime object, json.dumps raises TypeError before SETEX,
\* nothing is stored or pushed and the request ends with status 500.  With a
\* value json.dumps accepts the record is stored and queue_push follows: the
\* identifier is pushed and the request ends with status 201, or the store
\* fails at the RPUSH, queue_push raises, and the request ends with status
\* 500 (there is no try/except around the two calls, and no delete)
StoreAnswers == {"ok", "error"}

CreateJob(s, rpush) ==
    /\ HandlerMayRun(req[s].pc)
    /\ req[s].endpoint = "jobs"
    /\ LET id == JobId(s)
           value == ModelDump(NewJob(id, req[s].text))
       IN IF JsonSerializable(value)
          THEN /\ jobs' = [j \in DOMAIN jobs \cup {id} |->
                             IF j = id THEN StoredEntry(value, JOB_TTL) ELSE jobs[j]]
               /\ queue' = IF rpush = "ok"
                           THEN RedisRpush(queue, JsonDumps(QueueItem(id)))
                           ELSE queue
               /\ req' = [req EXCEPT ![s].pc = "responded",
                                     ![s].status = IF rpush = "ok" THEN 201
                                                   ELSE 500]
          ELSE /\ jobs' = jobs
               /\ queue' = queue
               /\ req' = [req EXCEPT ![s].pc = "responded", ![s].status = 500]
    /\ UNCHANGED <<now, rt, poll, rlVars, cacheVars, upd, wk, pushed, popped>>

\* The endpoints behind the limiter: two requests, each for either endpoint,
\* arriving within one second at a store where the first caller has used up
\* its allowance or nobody has called yet, and where the second caller's
\* earlier requests may have filled the global allowance
ApiSlots == {1, 2}

InitApi ==
    /\ Init
    /\ counter[IpKey(1)].count \in {0, PER_IP_REQUESTS}
    /\ counter[IpKey(2)].count \in {0, GLOBAL_REQUESTS - PER_IP_REQUESTS}

NextApi ==
    \/ \E s \in ApiSlots, c \in Callers, ep \in Endpoints, x \in Texts :
          Arrive(s, c, ep, x)
    \/ \E s \in Slots : IpIncr(s)
    \/ \E s \in Slots : IpExpire(s)
    \/ \E s \in Slots : IpTtl(s)
    \/ \E s \in Slots : GlobalIncr(s)
    \/ \E s \in Slots : GlobalExpire(s)
    \/ \E s \in Slots : GlobalTtl(s)
    \/ \E s \in Slots : StoreFails(s)
    \/ \E s \in Slots : ExtractHandler(s)
    \/ \E s \in Slots : CacheLookup(s)
    \/ \E s \in Slots, r \in Results : ComputeReturns(s, r)
    \/ \E s \in Slots : ComputeRaises(s)
    \/ \E s \in Slots : CacheStore(s)
    \/ \E s \in Slots : CacheStoreFails(s)
    \/ \E s \in Slots : ExtractRespond(s)
    \/ \E s \in Slots, rpush \in StoreAnswers : CreateJob(s, rpush)

SpecApi == InitApi /\ [][NextApi]_vars

\* The extraction backend behind the limiter: requests for POST /extract
\* arrive at a store that earlier requests of the same window have left, each
\* of them admitted and served by one call of the backend
QuotaSlots == {1, 2}
QuotaPrior == {0, PER_IP_REQUESTS}

InitQuota ==
    /\ now = 0
    /\ \E prior \in [Callers -> QuotaPrior] :
         LET g == SumPassed(prior, Callers)
         IN /\ g <= GLOBAL_REQUESTS
            /\ counter = [k \in RLKeys |->
                            IF k = GlobalKey THEN AfterPrior(g, GLOBAL_WINDOW)
                            ELSE AfterPrior(prior[k[2]], PER_IP_WINDOW)]
            /\ admittedG = g
            /\ calls = g
            /\ seen = {c \in Callers : prior[c] > 0}
    /\ req = [s \in Slots |-> IdleReq]
    /\ cache = [k \in CacheKeys |-> NoEntry]
    /\ goc = [t \in Slots |-> NoCall]
    /\ lastWrite = [k \in CacheKeys |-> NoTask]
    /\ jobs = <<>>
    /\ queue = <<>>
    /\ JobsIdle

NextQuota ==
    \/ \E s \in QuotaSlots, c \in Callers : Arrive(s, c, "extract", s)
    \/ \E s \in QuotaSlots : IpIncr(s)
    \/ \E s \in QuotaSlots : IpExpire(s)
    \/ \E s \in QuotaSlots : IpTtl(s)
    \/ \E s \in QuotaSlots : GlobalIncr(s)
    \/ \E s \in QuotaSlots : GlobalExpire(s)
    \/ \E s \in QuotaSlots : ExtractHandler(s)
    \/ \E s \in QuotaSlots : CacheLookup(s)
    \/ \E s \in QuotaSlots : GenerateStructured(s)
    \/ \E o \in FuncOutcomes : CallGemini(o)
    \/ RetrySleepDone
    \/ \E s \in QuotaSlots : GenerateReturns(s, EmptyGraph)
    \/ \E s \in QuotaSlots : GenerateRaises(s)
    \/ \E s \in QuotaSlots : CacheStore(s)
    \/ \E s \in QuotaSlots : ExtractRespond(s)

SpecQuota == InitQuota /\ [][NextQuota]_vars

\* The job store on its own.  The records are given as get_job reads them
\* (timestamps as ISO strings), in any of the four statuses, written at
\* second 0 with the retention lifetime; update_job_status is called with
\* every combination of arguments, and the clock moves in steps of half the
\* retention lifetime
JobStep == JOB_TTL \div 2

JobTick ==
    /\ now + JobStep <= MaxTicks * JobStep
    /\ Advance(JobStep)

InitJobs ==
    /\ now = 0
    /\ counter = [k \in RLKeys |-> Absent]
    /\ admittedG = 0
    /\ seen = {}
    /\ calls = 0
    /\ req = [s \in Slots |-> IdleReq]
    /\ cache = [k \in CacheKeys |-> NoEntry]
    /\ goc = [t \in Slots |-> NoCall]
    /\ lastWrite = [k \in CacheKeys |-> NoTask]
    /\ \E ids \in SUBSET JobIds : \E st \in [ids -> Statuses] :
          jobs = [id \in ids |-> [value |-> JsonDumps(JobDict(id, st[id])),
                                  exp |-> JOB_TTL]]
    /\ queue = <<>>
    /\ JobsIdle

NextJobs ==
    \/ \E id \in JobIds \cup {NoJobId}, st \in Statuses,
          r \in UpdResults, e \in UpdErrors : UpdateJobStatus(id, st, r, e)
    \/ JobTick

SpecJobs == InitJobs /\ [][NextJobs]_vars

\* The queue and its workers: identifiers are pushed with queue_push, each
\* once, for jobs whose record is there (pending, as get_job reads it) or
\* not; two workers poll
InitQueue ==
    /\ InitJobs
    /\ \A id \in DOMAIN jobs :
          JsonLoads(jobs[id].value).fields.status = "pending"

NextQueue ==
    \/ \E id \in JobIds : PushBegin(id)
    \/ \E id \in JobIds : PushApply(id)
    \/ \E w \in Workers : GetNextJob(w)
    \/ \E w \in Workers : ProcessJobGet(w)
    \/ \E w \in Workers : ProcessJobSetProcessing(w)
    \/ \E w \in Workers : ProcessJobSetFailed(w)

SpecQueue == InitQueue /\ [][NextQueue]_vars

\* The workers from start() to shutdown: two identifiers are pushed, two
\* workers poll and process, each can be sent the stop signal, records expire
WorkerJobs == {JobId(1), JobId(2)}

InitWorker ==
    /\ InitQueue
    /\ DOMAIN jobs \subseteq WorkerJobs

NextWorker ==
    \/ \E id \in WorkerJobs : PushBegin(id)
    \/ \E id \in WorkerJobs : PushApply(id)
    \/ \E w \in Workers : GetNextJob(w)
    \/ \E w \in Workers : GetNextJobTimeout(w)
    \/ \E w \in Workers : GetNextJobAborted(w)
    \/ \E w \in Workers : ProcessJobGet(w)
    \/ \E w \in Workers : ProcessJobSetProcessing(w)
    \/ \E w \in Workers : ProcessJobSetFailed(w)
    \/ \E w \in Workers : PauseDone(w)
    \/ \E w \in Workers : StopSignal(w)
    \/ \E w \in Workers : StopDisconnect(w)
    \/ \E w \in Workers : MainFinally(w)
    \/ WorkerTick

SpecWorker == InitWorker /\ [][NextWorker]_vars

\* The workers left to run: nobody sends a stop signal, the store answers
\* every call, and the clock stays far below the lifetime of the records.
\* The event loop of a worker process runs every task that is ready and
\* fires every timer that is due, so each step of a worker that stays
\* possible is taken (weak fairness); pushes come from outside and need not
\* happen.  The clock moves on to the next timer for as long as it is within
\* the horizon or a worker sleeps after an iteration, so a run comes to rest
\* only where every worker waits in BLPOP and no step of the code other than
\* an empty poll remains
LiveTick ==
    /\ \A d \in TimerDeadlines : d > now
    /\ TimerDeadlines # {}
    /\ LET next == CHOOSE d \in TimerDeadlines :
                      \A e \in TimerDeadlines : d <= e
       IN /\ next <= Horizon \/ \E w \in Workers : wk[w].pc = "pause"
          /\ Advance(next - now)

InitLive == InitWorker

NextLive ==
    \/ \E id \in WorkerJobs : PushBegin(id)
    \/ \E id \in WorkerJobs : PushApply(id)
    \/ \E w \in Workers : GetNextJob(w)
    \/ \E w \in Workers : GetNextJobTimeout(w)
    \/ \E w \in Workers : ProcessJobGet(w)
    \/ \E w \in Workers : ProcessJobSetProcessing(w)
    \/ \E w \in Workers : ProcessJobSetFailed(w)
    \/ \E w \in Workers : PauseDone(w)
    \/ LiveTick

LiveFairness ==
    /\ \A w \in Workers :
          /\ WF_vars(GetNextJob(w))
          /\ WF_vars(GetNextJobTimeout(w))
          /\ WF_vars(ProcessJobGet(w))
          /\ WF_vars(ProcessJobSetProcessing(w))
          /\ WF_vars(ProcessJobSetFailed(w))
          /\ WF_vars(PauseDone(w))
    /\ \A id \in WorkerJobs : WF_vars(PushApply(id))
    /\ WF_vars(LiveTick)

SpecLive == InitLive /\ [][NextLive]_vars /\ LiveFairness

\* The cache between the two paths: POST /extract is served for the text of
\* the jobs, through get_or_compute, while the workers pop and process the
\* jobs' identifiers
InitShared == InitWorker

NextShared ==
    \/ Call(1, JobText)
    \/ CacheLookup(1)
    \/ \E r \in Results : ComputeReturns(1, r)
    \/ CacheStore(1)
    \/ \E id \in WorkerJobs : PushBegin(id)
    \/ \E id \in WorkerJobs : PushApply(id)
    \/ \E w \in Workers : GetNextJob(w)
    \/ \E w \in Workers : ProcessJobGet(w)
    \/ \E w \in Workers : ProcessJobSetProcessing(w)
    \/ \E w \in Workers : ProcessJobSetFailed(w)

SpecShared == InitShared /\ [][NextShared]_vars

\* The workers up to their end: as under SpecWorker, for one identifier, with
\* the fairness of the event loop.  A stop signal may come at any time up to
\* the horizon; the clock moves on beyond it for as long as a worker that has
\* been told to stop waits for a BLPOP or a sleep to end
Stopping(w) ==
    /\ ~wk[w].running
    /\ \/ wk[w].pc = "pause"
       \/ wk[w].pc = "poll" /\ Connected(w)

StopTick ==
    /\ \A d \in TimerDeadlines : d > now
    /\ TimerDeadlines # {}
    /\ LET next == CHOOSE d \in TimerDeadlines :
                      \A e \in TimerDeadlines : d <= e
       IN /\ next <= Horizon \/ \E w \in Workers : Stopping(w)
          /\ Advance(next - now)

InitStop == InitWorker

NextStop ==
    \/ PushBegin(JobId(1))
    \/ PushApply(JobId(1))
    \/ \E w \in Workers : GetNextJob(w)
    \/ \E w \in Workers : GetNextJobTimeout(w)
    \/ \E w \in Workers : GetNextJobAborted(w)
    \/ \E w \in Workers : ProcessJobGet(w)
    \/ \E w \in Workers : ProcessJobSetProcessing(w)
    \/ \E w \in Workers : ProcessJobSetFailed(w)
    \/ \E w \in Workers : PauseDone(w)
    \/ \E w \in Workers : wk[w].since <= Horizon /\ StopSignal(w)
    \/ \E w \in Workers : StopDisconnect(w)
    \/ \E w \in Workers : MainFinally(w)
    \/ StopTick

StopFairness ==
    /\ \A w \in Workers :
          /\ WF_vars(GetNextJob(w))
          /\ WF_vars(GetNextJobTimeout(w))
          /\ WF_vars(GetNextJobAborted(w))
          /\ WF_vars(ProcessJobGet(w))
          /\ WF_vars(ProcessJobSetProcessing(w))
          /\ WF_vars(ProcessJobSetFailed(w))
          /\ WF_vars(PauseDone(w))
          /\ WF_vars(StopDisconnect(w))
          /\ WF_vars(MainFinally(w))
    /\ WF_vars(StopTick)

SpecStop == InitStop /\ [][NextStop]_vars /\ StopFairness

\* The except branch of process_job: identifiers are pushed, the workers pop
\* them, and a write of processing ends with the serialisation error or with
\* a store error of any message
InitFailure == InitWorker

NextFailure ==
    \/ \E id \in WorkerJobs : PushBegin(id)
    \/ \E id \in WorkerJobs : PushApply(id)
    \/ \E w \in Workers : GetNextJob(w)
    \/ \E w \in Workers : ProcessJobGet(w)
    \/ \E w \in Workers : ProcessJobSetProcessing(w)
    \/ \E w \in Workers, e \in Messages : ProcessJobStoreError(w, e)
    \/ \E w \in Workers : ProcessJobSetFailed(w)

SpecFailure == InitFailure /\ [][NextFailure]_vars

\* The status endpoint: clients poll the jobs while time passes, a worker's
\* two status updates are attempted, and the first identifier may be queued
InitStatus == InitJobs

NextStatus ==
    \/ \E id \in JobIds \cup {NoJobId} : GetJobStatus(id)
    \/ \E id \in JobIds : UpdateJobStatus(id, "processing", None, None)
    \/ \E id \in JobIds : UpdateJobStatus(id, "failed", None, Text("boom"))
    \/ PushBegin(JobId(1))
    \/ PushApply(JobId(1))
    \/ JobTick

SpecStatus == InitStatus /\ [][NextStatus]_vars

\* _retry_with_backoff on its own: one call, with any number of retries up to
\* the bound, around a func that fails or returns as it likes
InitRetry == InitCache

NextRetry ==
    \/ \E R \in 0..MaxRetries, d \in BaseDelays : RetryCall(R, d)
    \/ \E o \in FuncOutcomes : RetryInvoke(o)
    \/ RetrySleepDone

SpecRetry == InitRetry /\ [][NextRetry]_vars

TypeOK ==
    /\ now \in Nat
    /\ \A k \in RLKeys : counter[k].count \in Nat
    /\ admittedG \in Nat
    /\ calls \in Nat

\* ------------------------------------------------------------------------
\* Claims about the admission limiter (checked under Spec)
\* ------------------------------------------------------------------------
Outcomes == {"admitted", "rejected"}
IpExpiryPending(k) == \E s \in Slots : req[s].pc = "rl_ip_expire" /\ IpKey(req[s].ip) = k
GlobalExpiryPending == \E s \in Slots : req[s].pc = "rl_g_expire"

\* C1: with a single caller as the only traffic, a call is admitted exactly
\* when its per-caller count is within PER_IP_REQUESTS, and once
\* PER_IP_WINDOW seconds have passed since the call that opened the window the
\* counter is gone, so that the next call restarts it at 1 and is admitted.
C1_SoloCallerWindow ==
    (\E c \in Callers : seen \subseteq {c}) =>
        /\ \A s \in Slots :
              req[s].pc \in Outcomes =>
                  (req[s].pc = "admitted" <=> req[s].ip_count <= PER_IP_REQUESTS)
        /\ \A c \in Callers :
              counter[IpKey(c)].count >= 1 =>
                  now < counter[IpKey(c)].start + PER_IP_WINDOW

\* C2: at most GLOBAL_REQUESTS admissions are decided in the life of one
\* global counter, and no call whose global count exceeds GLOBAL_REQUESTS is
\* admitted, whatever its per-caller count.
C2_GlobalLimit ==
    /\ admittedG <= GLOBAL_REQUESTS
    /\ \A s \in Slots :
          /\ req[s].pc = "admitted" => req[s].global_count <= GLOBAL_REQUESTS
          /\ (req[s].global_count > GLOBAL_REQUESTS /\ req[s].pc \in Outcomes)
                => (req[s].pc = "rejected" /\ req[s].cause = "global")

C2_Witness ==
    \E s \in Slots :
        /\ req[s].pc = "rejected" /\ req[s].cause = "global"
        /\ req[s].ip_count <= PER_IP_REQUESTS
        /\ req[s].global_count = GLOBAL_REQUESTS + 1
        /\ admittedG = GLOBAL_REQUESTS

\* C3 as stated: every attempt that ends admitted or rejected has incremented
\* both the per-caller counter and the global counter exactly once.
C3_BothCountersAlways ==
    \A s \in Slots :
        req[s].pc \in Outcomes => (req[s].incIp = 1 /\ req[s].incG = 1)

\* C3 amended: every attempt that ends admitted or rejected has incremented
\* the per-caller counter exactly once; it has incremented the global counter
\* exactly once when its per-caller count was within the limit, and not at
\* all when it was rejected by the per-caller check.
C3_GlobalOnlyAfterIpCheck ==
    \A s \in Slots :
        req[s].pc \in Outcomes =>
            /\ req[s].incIp = 1
            /\ req[s].incG = (IF req[s].ip_count <= PER_IP_REQUESTS THEN 1 ELSE 0)
            /\ (req[s].pc = "rejected" /\ req[s].cause = "ip") => req[s].incG = 0
            /\ (req[s].pc = "rejected" /\ req[s].cause = "global") => req[s].incG = 1

C3_Witness ==
    \E s, t \in Slots :
        /\ req[s].pc = "rejected" /\ req[s].cause = "ip" /\ req[s].incG = 0
        /\ req[t].pc = "rejected" /\ req[t].cause = "global" /\ req[t].incIp = 1

\* C4: no counter exists with a count of at least 1 and no expiry.  The
\* claim is read in its weakest form: the state inside increment, between
\* INCR and EXPIRE, is allowed as long as the call that created the key is
\* still about to set the expiry.
C4_CounterHasExpiry ==
    \A k \in RLKeys :
        counter[k].count >= 1 =>
            \/ counter[k].exp # NoExpiry
            \/ IpExpiryPending(k)
            \/ (k = GlobalKey /\ GlobalExpiryPending)

\* C5: a counter's expiry is set only by the increment call that took the
\* count to 1 and only while the key has none; once set it stays as it is for
\* as long as the key lives, whatever increments follow; a key whose expiry
\* has been reached reads 0, and an increment of an absent key returns 1.
C5_ExpirySetByFirstIncrement ==
    [][ /\ \A k \in RLKeys :
              /\ (counter[k].count > 0 /\ counter[k].exp # NoExpiry /\ counter'[k].count > 0)
                    => counter'[k].exp = counter[k].exp
              /\ (counter[k].exp = NoExpiry /\ counter'[k].exp # NoExpiry)
                    => \E s \in Slots :
                          /\ req[s].pc \in {"rl_ip_expire", "rl_g_expire"}
                          /\ req'[s].pc # req[s].pc
                          /\ k = (IF req[s].pc = "rl_ip_expire" THEN IpKey(req[s].ip) ELSE GlobalKey)
                          /\ (IF req[s].pc = "rl_ip_expire" THEN req[s].ip_count ELSE req[s].global_count) = 1
              /\ (counter[k].count > 0 /\ counter[k].exp # NoExpiry /\ counter[k].exp <= now')
                    => counter'[k].count = 0
        /\ \A s \in Slots :
              /\ (req[s].pc = "rl_ip_incr" /\ req'[s].pc \notin {"rl_ip_incr", "error"}
                  /\ counter[IpKey(req[s].ip)].count = 0) => req'[s].ip_count = 1
              /\ (req[s].pc = "rl_g_incr" /\ req'[s].pc \notin {"rl_g_incr", "error"}
                  /\ counter[GlobalKey].count = 0) => req'[s].global_count = 1
      ]_vars

\* a key opened and given its expiry after the initial state, incremented
\* again, with time having passed since
C5_Witness ==
    \E k \in RLKeys :
        /\ counter[k].count >= 2
        /\ counter[k].start > 0
        /\ counter[k].exp = counter[k].start + PER_IP_WINDOW
        /\ now > counter[k].start

\* C6: a rejection carries max(TTL of the counter that caused it, 1), read
\* from the per-caller key for a per-caller rejection and from the global key
\* for a global rejection, and that delay lies between 1 and the window
\* length.
C6_RetryAfterFromCausingCounter ==
    /\ [](\A s \in Slots :
            req[s].pc = "rejected" =>
                /\ req[s].retry_after >= 1
                /\ req[s].cause = "ip" => req[s].retry_after <= PER_IP_WINDOW
                /\ req[s].cause = "global" => req[s].retry_after <= GLOBAL_WINDOW)
    /\ [][\A s \in Slots :
            (req[s].pc # "rejected" /\ req'[s].pc = "rejected") =>
                LET k == IF req[s].ip_count > PER_IP_REQUESTS
                         THEN IpKey(req[s].ip) ELSE GlobalKey
                    ttl == IF counter[k].count = 0 THEN -2
                           ELSE IF counter[k].exp = NoExpiry THEN -1
                           ELSE counter[k].exp - now
                IN /\ req'[s].retry_after = (IF ttl > 1 THEN ttl ELSE 1)
                   /\ req'[s].cause = (IF req[s].ip_count > PER_IP_REQUESTS
                                       THEN "ip" ELSE "global")
         ]_vars

\* a rejection whose counter expired between the increment and the TTL read,
\* next to one that read a running window
C6_Witness ==
    \E s, t \in Slots :
        /\ req[s].pc = "rejected" /\ req[s].retry_after = 1
        /\ req[s].cause = "ip" /\ counter[IpKey(req[s].ip)].count = 0
        /\ req[t].pc = "rejected" /\ req[t].retry_after > 1

\* ------------------------------------------------------------------------
\* Claims about the endpoints behind the limiter (checked under SpecApi)
\* ------------------------------------------------------------------------
\* C7: a request rejected by the limiter does no further work.  It answers
\* 429 and has no get_or_compute call (no lookup, no extraction, no cache
\* write); a rejected request is final, so it never starts one later; and
\* every step that touches the result cache, a get_or_compute call, the job
\* records or the queue is a step of a request that was admitted, or the
\* passing of time.
C7_RejectedDoesNoWork ==
    /\ [](\A s \in Slots :
            req[s].pc = "rejected" =>
                /\ req[s].status = 429
                /\ goc[s] = NoCall
                /\ <<"uuid", s>> \notin DOMAIN jobs)
    /\ [][/\ \A s \in Slots :
                req[s].pc = "rejected" => (req'[s] = req[s] /\ goc'[s] = goc[s])
          /\ (now' = now /\ <<cache, goc, lastWrite, jobs, queue>>
                               # <<cache', goc', lastWrite', jobs', queue'>>)
                => \E s \in Slots :
                      /\ req[s].pc \in {"admitted", "extracting"}
                      /\ \A u \in Slots \ {s} : goc'[u] = goc[u]
                      /\ req[s].endpoint = "jobs" => cacheVars' = cacheVars
                      /\ req[s].endpoint = "extract" => jobVars' = jobVars
         ]_vars

\* one request rejected on each endpoint, next to nothing they could have
\* touched, after an admitted request has filled the cache
C7_Witness ==
    \E s, u \in Slots :
        /\ req[s].pc = "rejected" /\ req[s].endpoint \in Endpoints
        /\ goc[s] = NoCall
        /\ req[u].pc = "responded" /\ req[u].status = 200 /\ goc[u].wrote = 1

\* ------------------------------------------------------------------------
\* Claims about the result cache (checked under SpecCache)
\* ------------------------------------------------------------------------
\* C8: get_or_compute returns the stored value of a live entry of the text's
\* key without invoking compute_fn or writing the cache; without a live
\* entry it invokes compute_fn exactly once, stores that result under the key
\* with a lifetime of 24 hours, and returns that same result.
C8_GetOrCompute ==
    /\ [](\A t \in Slots :
            goc[t].pc = "returned" =>
                IF goc[t].hit
                THEN goc[t].computed = 0 /\ goc[t].wrote = 0
                ELSE goc[t].computed = 1 /\ goc[t].wrote = 1
                     /\ goc[t].result = goc[t].own)
    /\ [][\A t \in Slots :
            LET k == _generate_cache_key(goc[t].text)
            IN /\ (goc[t].pc = "get" /\ goc'[t].pc \notin {"get", "raised", "none"}) =>
                     /\ cache' = cache
                     /\ IF cache[k] # NoEntry
                        THEN /\ goc'[t].pc = "returned"
                             /\ goc'[t].result = cache[k].value.json.fields
                        ELSE goc'[t].pc = "compute"
               /\ (goc[t].pc = "set" /\ goc'[t].pc = "returned") =>
                     /\ cache'[k] = [value |-> [tag |-> "str",
                                                json |-> [tag |-> "dict",
                                                          fields |-> goc[t].own]],
                                     exp |-> now + 86400]
                     /\ \A k2 \in CacheKeys \ {k} : cache'[k2] = cache[k2]
                     /\ goc'[t].result = goc[t].own
         ]_vars

\* a call that missed, computed and stored, and a call that was served from
\* the entry
C8_Witness ==
    \E t, u \in Slots :
        /\ goc[t].pc = "returned" /\ ~goc[t].hit /\ goc[t].wrote = 1
        /\ goc[u].pc = "returned" /\ goc[u].hit /\ goc[u].result = goc[t].own
        /\ cache[_generate_cache_key(goc[t].text)] # NoEntry

\* C9: a call b that began after a call a on the same text had returned, with
\* no expiry and no invalidation of the key since, is a hit once its lookup
\* has answered: b invokes compute_fn not at all, so the two invoke it at
\* most once, and b returns what a stored (or what a itself was served) as
\* long as no third call has overwritten the entry in between.
C9_SequentialSecondIsHit ==
    \A b \in Slots :
        (/\ goc[b].follows # {}
         /\ goc[b].pc \notin {"none", "get"}
         /\ ~(goc[b].pc = "raised" /\ goc[b].computed = 0))
        => /\ goc[b].pc = "returned" /\ goc[b].hit
           /\ goc[b].computed = 0 /\ goc[b].wrote = 0
           /\ \A a \in goc[b].follows :
                 /\ goc[a].computed + goc[b].computed <= 1
                 /\ goc[b].src = a => goc[b].result = goc[a].own
                 /\ (goc[a].hit /\ goc[a].src = goc[b].src)
                       => goc[b].result = goc[a].result

\* the second call is made after time has passed, and is served the first
\* call's value
C9_Witness ==
    \E a, b \in Slots :
        /\ a \in goc[b].follows
        /\ goc[a].computed = 1 /\ goc[a].wrote = 1
        /\ goc[b].pc = "returned" /\ goc[b].hit /\ goc[b].src = a
        /\ goc[b].result = goc[a].own
        /\ now > 0

\* C10: lookup and store are separate operations, so two calls on one text
\* can both miss and both compute; each call that missed has written once and
\* returns what it computed itself, and the entry in the cache is the value
\* of the write that came last.
C10_LastWriteWins ==
    /\ \A k \in CacheKeys :
          (cache[k] # NoEntry /\ lastWrite[k] # NoTask) =>
              cache[k].value = JsonDumps(ModelDump(goc[lastWrite[k]].own))
    /\ \A t \in Slots :
          (goc[t].pc = "returned" /\ ~goc[t].hit) =>
              /\ goc[t].wrote = 1
              /\ goc[t].result = goc[t].own

\* two calls on one text that both missed, computed different results and
\* returned them; the entry is the later writer's
C10_Witness ==
    \E t, u \in Slots :
        /\ t # u /\ goc[t].text = goc[u].text
        /\ goc[t].pc = "returned" /\ goc[u].pc = "returned"
        /\ ~goc[t].hit /\ ~goc[u].hit
        /\ goc[t].computed = 1 /\ goc[u].computed = 1
        /\ goc[t].own # goc[u].own
        /\ lastWrite[_generate_cache_key(goc[t].text)] = u
        /\ cache[_generate_cache_key(goc[t].text)].value = JsonDumps(ModelDump(goc[u].own))

\* C11: a store error during the lookup ends get_or_compute with that error:
\* no value, no compute_fn invocation, no computing without the cache; a store
\* error during the write after a successful computation ends it with the
\* error too, and the computed value is not returned.  A call that has raised
\* stays as it is.
C11_StoreErrorPropagates ==
    /\ [](\A t \in Slots :
            goc[t].failed # "none" =>
                /\ goc[t].pc = "raised"
                /\ ~goc[t].hit /\ goc[t].wrote = 0
                /\ goc[t].failed = "get" => (goc[t].computed = 0 /\ goc[t].own = None)
                /\ goc[t].failed = "set" => (goc[t].computed = 1 /\ goc[t].own # None))
    /\ [][\A t \in Slots :
            goc[t].pc = "raised" =>
                /\ goc'[t].pc = "raised"
                /\ goc'[t].computed = goc[t].computed
                /\ goc'[t].wrote = goc[t].wrote
         ]_vars

\* one call cut short at the lookup, one at the write of its result
C11_Witness ==
    \E t, u \in Slots :
        /\ goc[t].pc = "raised" /\ goc[t].failed = "get" /\ goc[t].computed = 0
        /\ goc[u].pc = "raised" /\ goc[u].failed = "set" /\ goc[u].own # None
        /\ cache[_generate_cache_key(goc[u].text)] = NoEntry

\* C12: an entry is written only after compute_fn has returned.  A call whose
\* compute_fn raised ends with the error and has written nothing, the step at
\* which compute_fn raises leaves the cache as it was, and every entry, and
\* so every value a hit returns, is a value some compute_fn invocation
\* returned to a call on a text with that key.
C12_EntriesComeFromComputations ==
    /\ [](/\ \A t \in Slots :
               /\ (goc[t].computed = 1 /\ goc[t].own = None) =>
                     (goc[t].pc = "raised" /\ goc[t].wrote = 0)
               /\ goc[t].wrote = 1 => goc[t].own # None
               /\ goc[t].hit =>
                     \E u \in Slots :
                        /\ goc[u].own = goc[t].result
                        /\ _generate_cache_key(goc[u].text) = _generate_cache_key(goc[t].text)
          /\ \A k \in CacheKeys :
               cache[k] # NoEntry =>
                   \E u \in Slots :
                       /\ goc[u].own # None
                       /\ _generate_cache_key(goc[u].text) = k
                       /\ cache[k].value = JsonDumps(ModelDump(goc[u].own)))
    /\ [][\A t \in Slots :
            (goc[t].pc = "compute" /\ goc'[t].own = None /\ goc'[t].pc # "compute")
                => cache' = cache
         ]_vars

\* a call whose compute_fn raised, beside the untouched entry of its key that
\* another call's computation had left
C12_Witness ==
    \E t, u \in Slots :
        /\ goc[t].pc = "raised" /\ goc[t].computed = 1 /\ goc[t].own = None
        /\ goc[u].pc = "returned" /\ goc[u].wrote = 1
        /\ _generate_cache_key(goc[u].text) = _generate_cache_key(goc[t].text)
        /\ cache[_generate_cache_key(goc[t].text)].value = JsonDumps(ModelDump(goc[u].own))

\* C13: invalidate(text) of a text without an entry changes nothing, a second
\* invalidate changes nothing more, only the entry of the text's key goes,
\* and after it the lookup of a call on that text finds nothing, so the call
\* invokes compute_fn.
C13_Invalidate ==
    /\ [](/\ \A x \in Texts :
               LET k == _generate_cache_key(x)
               IN /\ cache[k] = NoEntry => Del(cache, k) = cache
                  /\ Del(Del(cache, k), k) = Del(cache, k)
                  /\ Del(cache, k)[k] = NoEntry
                  /\ \A k2 \in CacheKeys \ {k} : Del(cache, k)[k2] = cache[k2]
          /\ \A k \in CacheKeys : lastWrite[k] = Deleted => cache[k] = NoEntry)
    /\ [][/\ (now' = now /\ \E k \in CacheKeys : cache[k] # NoEntry /\ cache'[k] = NoEntry)
                => Cardinality({k \in CacheKeys : cache'[k] # cache[k]}) = 1
          /\ \A t \in Slots :
                (/\ goc[t].pc = "get" /\ goc'[t].pc # "get"
                 /\ lastWrite[_generate_cache_key(goc[t].text)] = Deleted)
                => (goc'[t].pc \in {"compute", "raised"} /\ ~goc'[t].hit)
         ]_vars

\* an entry was invalidated while another key kept its own, and a call on
\* the invalidated text then missed and computed
C13_Witness ==
    \E t, u \in Slots :
        /\ goc[t].pc = "returned" /\ goc[t].wrote = 1 /\ ~goc[t].fresh
        /\ lastWrite[_generate_cache_key(goc[t].text)] = Deleted
        /\ goc[u].text = goc[t].text /\ goc[u].pc = "set" /\ goc[u].computed = 1
        /\ goc[u].src = Deleted
        /\ now = 0

\* ------------------------------------------------------------------------
\* Claims about the job store (C14 checked under SpecApi, the others under
\* SpecJobs)
\* ------------------------------------------------------------------------
\* C14: a create_job call that ran against a store that answers has, when the
\* POST /jobs request is over, written the record of a fresh identifier
\* (the given text, status pending, no completion time, result or error, the
\* retention lifetime of one hour) and has pushed that identifier onto the
\* queue exactly once.
C14_CreateJobStoresAndQueues ==
    \A s \in Slots :
        (req[s].endpoint = "jobs" /\ req[s].pc = "responded") =>
            /\ JobId(s) \in DOMAIN jobs
            /\ jobs[JobId(s)] # NoEntry
            /\ LET j == JsonLoads(jobs[JobId(s)].value).fields
               IN /\ j.job_id = JobId(s) /\ j.text = req[s].text
                  /\ j.status = "pending"
                  /\ j.completed_at = None /\ j.result = None /\ j.error = None
            /\ jobs[JobId(s)].exp = now + JOB_TTL
            /\ Cardinality({i \in 1..Len(queue) :
                               queue[i] = JsonDumps(QueueItem(JobId(s)))}) = 1
            /\ req[s].status = 201

Rank(st) == CASE st = "pending" -> 0 [] st = "processing" -> 1 [] OTHER -> 2
UpdateBuilt == upd.outcome \notin {"none", "not_found", "not_connected"}

C16_UpdateOfMissingJob ==
    /\ [](upd.outcome = "not_found" => (upd.read = None /\ upd.built = None))
    /\ [][(upd' # upd /\ (upd'.id \notin DOMAIN jobs \/ jobs[upd'.id] = NoEntry))
            => /\ upd'.outcome = "not_found"
               /\ jobs' = jobs
               /\ queue' = queue
         ]_vars

\* the record of the identifier existed and has expired
C16_Witness ==
    /\ upd.outcome = "not_found"
    /\ upd.id \in DOMAIN jobs
    /\ jobs[upd.id] = NoEntry
    /\ now >= JOB_TTL

\* C17: an update_job_status call on a live record leaves the record with
\* the full retention lifetime counted from the call.
C17_UpdateRenewsExpiry ==
    [][(upd' # upd /\ upd'.id \in DOMAIN jobs /\ jobs[upd'.id] # NoEntry)
          => jobs'[upd'.id].exp = now + JOB_TTL
      ]_vars

\* C18: a job that update_job_status sets to failed has an error that is not
\* null, whatever the message passed in, the empty string included.
C18_FailedHasError ==
    (UpdateBuilt /\ upd.status = "failed" /\ upd.error # None)
        => upd.built.error # None

\* C19: in every job record, and in every job update_job_status hands to the
\* store, completed_at is set exactly when the status is completed or
\* failed, result is set exactly when the status is completed, and error is
\* null when the status is pending, processing or completed.
JobConsistent(j) ==
    /\ j.completed_at # None <=> j.status \in Terminal
    /\ j.result # None <=> j.status = "completed"
    /\ j.status \in {"pending", "processing", "completed"} => j.error = None

Position(seq, x) == CHOOSE i \in 1..Len(seq) : seq[i] = x
InQueue(id) == \E i \in 1..Len(queue) : queue[i] = JsonDumps(QueueItem(id))
WasPopped(id) == \E i \in 1..Len(popped) : popped[i] = id

C20_QueueIsFifo ==
    /\ \A i, j \in 1..Len(popped) : i # j => popped[i] # popped[j]
    /\ \A b \in JobIds : \A a \in pushed[b].before :
          /\ WasPopped(b) => (WasPopped(a) /\ Position(popped, a) < Position(popped, b))
          /\ InQueue(b) =>
                \/ WasPopped(a)
                \/ (InQueue(a) /\ Position(queue, JsonDumps(QueueItem(a)))
                                    < Position(queue, JsonDumps(QueueItem(b))))

\* two identifiers pushed one after the other reached two different workers
C20_Witness ==
    /\ Len(popped) = 2
    /\ popped[1] \in pushed[popped[2]].before
    /\ \E v, w \in Workers :
          v # w /\ wk[v].job_id = popped[2] /\ wk[w].job_id = popped[1]

\* ------------------------------------------------------------------------
\* Claims about _retry_with_backoff (checked under SpecRetry)
\* ------------------------------------------------------------------------
RECURSIVE SumSeq(_)
SumSeq(q) == IF q = <<>> THEN 0 ELSE Head(q) + SumSeq(Tail(q))

Failures(r) == {i \in 1..Len(r.outcomes) : r.outcomes[i] # "ok"}

\* C25: a call whose func fails N times and then returns, N <= max_retries,
\* returns the value of that invocation after exactly N + 1 invocations; a
\* call whose func fails every time makes exactly max_retries + 1
\* invocations and raises the exception of the last of them.  A call never
\* makes more than max_retries + 1 invocations and stops at the first success.
C25_RetryCounts ==
    /\ rt.invocations = Len(rt.outcomes)
    /\ rt.invocations <= rt.max_retries + 1
    /\ \A i \in 1..Len(rt.outcomes) - 1 : rt.outcomes[i] # "ok"
    /\ rt.pc = "returned" <=>
          (rt.outcomes # <<>> /\ rt.outcomes[Len(rt.outcomes)] = "ok")
    /\ rt.pc = "returned" =>
          /\ rt.invocations = Cardinality(Failures(rt)) + 1
          /\ rt.result = Returned(rt.invocations)
    /\ rt.pc = "raised" =>
          /\ rt.invocations = rt.max_retries + 1
          /\ Cardinality(Failures(rt)) = rt.max_retries + 1
          /\ rt.result = Raised(rt.outcomes[rt.invocations], rt.invocations)
    /\ (rt.pc \in {"call", "sleep"} /\ rt.invocations = rt.max_retries + 1) => FALSE

\* func failed max_retries times, at least twice, and then returned
C25_Witness ==
    /\ rt.pc = "returned"
    /\ rt.max_retries >= 2
    /\ rt.invocations = rt.max_retries + 1

\* C26: the k-th wait of a call (k = 0, 1, ...) is base_delay * 2^k; there
\* is one wait per failed attempt that is followed by another attempt, none
\* after the last attempt and none after a success; a call that has used up
\* its retries has waited max_retries times, base_delay * (2^max_retries - 1)
\* in all.
C26_BackoffDelays ==
    /\ \A k \in 1..Len(rt.waits) : rt.waits[k] = rt.base_delay * (2 ^ (k - 1))
    /\ rt.pc \in {"call", "sleep"} =>
          Len(rt.waits) = rt.attempt + (IF rt.pc = "sleep" THEN 1 ELSE 0)
    /\ rt.pc = "returned" => Len(rt.waits) = Cardinality(Failures(rt))
    /\ rt.pc = "raised" =>
          /\ Len(rt.waits) = rt.max_retries
          /\ SumSeq(rt.waits) = rt.base_delay * ((2 ^ rt.max_retries) - 1)

\* every retry used up, with a base delay other than 1
C26_Witness ==
    /\ rt.pc = "raised"
    /\ rt.max_retries >= 2
    /\ rt.base_delay = 2
    /\ SumSeq(rt.waits) = 2 * ((2 ^ rt.max_retries) - 1)

\* C27: what a call does is fixed by the positions of the failures alone,
\* not by their classes: the invocations made, the waits taken and the
\* invocation whose exception is surfaced are those of the call in which
\* every failure is a generic exception, so two calls whose failure sequences
\* differ only in class agree on all three.
Shape(r) == [i \in 1..Len(r.outcomes) |->
                IF r.outcomes[i] = "ok" THEN "ok" ELSE "generic"]

RECURSIVE GenericRun(_, _)
GenericRun(r, shape) ==
    IF shape = <<>> \/ r.pc \notin {"call", "sleep"} THEN r
    ELSE IF r.pc = "sleep" THEN GenericRun(NextIteration(r), shape)
    ELSE LET i == r.invocations + 1
             called == [r EXCEPT !.invocations = i,
                                 !.outcomes = Append(@, Head(shape))]
         IN IF Head(shape) = "ok"
            THEN [called EXCEPT !.pc = "returned", !.result = Returned(i)]
            ELSE LET failed == [called EXCEPT
                                  !.last_exception = Raised("generic", i)]
                 IN GenericRun(IF r.attempt < r.max_retries
                               THEN [failed EXCEPT
                                       !.pc = "sleep",
                                       !.waits = Append(@, r.base_delay
                                                           * (2 ^ r.attempt))]
                               ELSE NextIteration(failed),
                               Tail(shape))

C27_ClassBlind ==
    rt.pc \in {"returned", "raised"} =>
        LET g == GenericRun([NoRetry EXCEPT !.pc = "call",
                                            !.max_retries = rt.max_retries,
                                            !.base_delay = rt.base_delay],
                            Shape(rt))
            h == IF g.pc = "sleep" THEN NextIteration(g) ELSE g
        IN /\ h.pc = rt.pc
           /\ h.invocations = rt.invocations
           /\ h.waits = rt.waits
           /\ h.result.at = rt.result.at
           /\ rt.pc = "raised" =>
                 rt.result.class = rt.outcomes[rt.invocations]

\* a call met both classes of failure and surfaced a quota failure
C27_Witness ==
    /\ rt.pc = "raised"
    /\ \E i, j \in Failures(rt) : rt.outcomes[i] = "quota" /\ rt.outcomes[j] = "generic"
    /\ rt.result.class = "quota"

\* ------------------------------------------------------------------------
\* Claims about the status endpoint (checked under SpecStatus)
\* ------------------------------------------------------------------------
Missing(id) == id \notin DOMAIN jobs \/ jobs[id] = NoEntry
Answered(id) == poll[id].code = 200

\* C29: the progress in an answer of the status endpoint is fixed by the
\* status in that answer, pending 0, processing 50, completed 100, failed
\* 100, and from one answer for a job to the next the progress does not
\* decrease.
C29_Progress ==
    /\ [](\A id \in DOMAIN poll :
            Answered(id) =>
                poll[id].body.progress =
                    (CASE poll[id].body.status = "pending" -> 0
                       [] poll[id].body.status = "processing" -> 50
                       [] poll[id].body.status = "completed" -> 100
                       [] poll[id].body.status = "failed" -> 100))
    /\ [][\A id \in DOMAIN poll :
            (Answered(id) /\ poll'[id].code = 200) =>
                poll'[id].body.progress >= poll[id].body.progress]_vars

\* a failed job and a processing job have been polled
C29_Witness ==
    \E a, b \in JobIds :
        /\ Answered(a) /\ poll[a].body.status = "failed"
        /\ poll[a].body.progress = 100
        /\ Answered(b) /\ poll[b].body.status = "processing"
        /\ upd.id = b /\ upd.status = "failed"

\* C30: for an identifier whose record has expired get_job returns None and
\* the status endpoint answers 404 with the detail it gives for an identifier
\* that never had a record, whatever the status of the expired record was and
\* whether or not the identifier is in the queue.
C30_ExpiredAsNeverCreated ==
    /\ [](\A id \in DOMAIN poll : Missing(id) => get_job(id) = None)
    /\ [][\A id \in DOMAIN poll :
            (poll'[id] # poll[id] /\ Missing(id)) =>
                (poll'[id].code = 404 /\ poll'[id].body = NotFound(id))]_vars

\* the record of a queued identifier has expired, and it and an identifier
\* that never had a record have both been polled since
C30_Witness ==
    \E a, b \in JobIds :
        /\ a \in DOMAIN jobs /\ jobs[a] = NoEntry
        /\ queue = <<JsonDumps(QueueItem(a))>>
        /\ b \notin DOMAIN jobs
        /\ poll[a].code = 404 /\ poll[b].code = 404

\* ------------------------------------------------------------------------
\* Claims about the worker (checked under SpecWorker)
\* ------------------------------------------------------------------------
InFlight == {"set_processing", "set_failed", "extract"}
LoopEnded == {"exited", "stopped"}
AtLoopHead(worker) == worker.pc = (IF worker.running THEN "poll" ELSE "exited")

\* C21: a get_next_job call on a list that stays empty returns None when
\* POLL_TIMEOUT seconds have passed since the call, not later, and leaves
\* the queue and the job records as they are; a call that finds the list
\* non-empty removes the head, and only the head, and returns its identifier.
C21_GetNextJob ==
    /\ [](\A w \in Workers :
            (wk[w].pc = "poll" /\ Connected(w) /\ queue = <<>>)
                => now <= wk[w].since + POLL_TIMEOUT)
    /\ [][\A w \in Workers :
            /\ (wk[w].pc = "poll" /\ wk'[w].stop = wk[w].stop
                  /\ wk'[w] # wk[w] /\ wk'[w].pc \in {"poll", "exited"})
                 => /\ now >= wk[w].since + POLL_TIMEOUT
                    /\ queue = <<>> /\ queue' = queue
                    /\ jobs' = jobs /\ popped' = popped
                    /\ wk'[w].job_id = NoJobId
            /\ (wk[w].pc = "poll" /\ wk'[w].pc = "got")
                 => /\ queue # <<>> /\ queue' = Tail(queue)
                    /\ Head(queue) = JsonDumps(QueueItem(wk'[w].job_id))
                    /\ jobs' = jobs
         ]_vars

\* a worker's call timed out, and a later call of the same worker returned an
\* identifier
C21_Witness ==
    \E w \in Workers :
        /\ wk[w].last = "timeout" /\ wk[w].pc = "got"
        /\ wk[w].since >= POLL_TIMEOUT

\* C22: while running is set no failure ends the loop; a job whose
\* processing raised has, when the worker is back at the top of the loop, a
\* record that reads failed with the error, and the worker polls on; an
\* exception that reaches process_loop makes the worker pause for LOOP_PAUSE
\* seconds and then poll again.
C22_LoopSurvivesFailures ==
    /\ [](\A w \in Workers : wk[w].running => wk[w].pc \notin LoopEnded)
    /\ [][\A w \in Workers :
            /\ (wk[w].pc = "set_failed" /\ wk'[w].pc # "set_failed"
                  /\ Connected(w) /\ get_job(wk[w].job_id) # None)
                 => /\ AtLoopHead(wk'[w])
                    /\ jobs'[wk[w].job_id] # NoEntry
                    /\ JsonLoads(jobs'[wk[w].job_id].value).fields.status = "failed"
                    /\ JsonLoads(jobs'[wk[w].job_id].value).fields.error # None
            /\ (wk[w].pc \in {"poll", "got", "set_failed"} /\ ~Connected(w)
                  /\ wk'[w].pc # wk[w].pc)
                 => wk'[w].pc = "pause"
            /\ (wk[w].pc = "pause" /\ wk'[w].pc # "pause")
                 => (now >= wk[w].since + LOOP_PAUSE /\ AtLoopHead(wk'[w]))
         ]_vars

\* C23: a worker that has popped an identifier without a job record goes
\* back to the top of its loop, and that step writes no job record, changes
\* neither the cache nor the queue and starts no extraction.
C23_MissingRecordSkipped ==
    [][\A w \in Workers :
          (wk[w].pc = "got" /\ wk'[w].pc # "got" /\ Connected(w)
             /\ get_job(wk[w].job_id) = None)
            => /\ AtLoopHead(wk'[w])
               /\ wk'[w].last = "skipped"
               /\ jobs' = jobs /\ upd' = upd /\ queue' = queue
               /\ cache' = cache /\ goc' = goc
      ]_vars

\* a worker has skipped an identifier whose record had expired and has then
\* popped the next one
C23_Witness ==
    \E w \in Workers :
        /\ wk[w].pc = "got" /\ wk[w].last = "skipped"
        /\ Len(popped) = 2 /\ wk[w].job_id = popped[2]
        /\ popped[1] \in DOMAIN jobs /\ jobs[popped[1]] = NoEntry
        /\ now >= JOB_TTL

\* C24: a worker that is processing a job, with a status write or the
\* extraction still to come, has its store connection open: stop() does not
\* close the connection before the job has been brought to an end.
C24_ShutdownWaitsForJob ==
    \A w \in Workers : wk[w].pc \in InFlight => Connected(w)

\* C28: an extraction is started only for a job whose record the worker has
\* set to processing: a worker whose write of processing raised goes to the
\* except branch, calling neither the cache nor the extractor, and a worker
\* about to extract has a job whose record does not read pending.
C28_ProcessingBeforeExtraction ==
    /\ [](\A w \in Workers :
            wk[w].pc = "extract" =>
                (get_job(wk[w].job_id) # None
                    => get_job(wk[w].job_id).status = "processing"))
    /\ [][\A w \in Workers :
            (wk[w].pc = "set_processing" /\ wk'[w].pc # "set_processing"
               /\ upd'.outcome # "ok")
              => /\ wk'[w].pc = "set_failed"
                 /\ cache' = cache /\ goc' = goc
         ]_vars

\* the write of processing has raised and the worker is in the except branch
C28_Witness ==
    \E w \in Workers :
        /\ wk[w].pc = "set_failed"
        /\ upd.id = wk[w].job_id /\ upd.status = "processing"
        /\ upd.outcome = "type_error"
        /\ get_job(wk[w].job_id) # None
        /\ get_job(wk[w].job_id).status = "pending"

\* the status in the record of id as the store holds it
StoredStatus(store, id) ==
    IF id \notin DOMAIN store \/ store[id] = NoEntry THEN "absent"
    ELSE JsonLoads(store[id].value).fields.status

\* C31: delivery is in order, completion need not be: where a worker brings
\* job B to its end while another worker is still processing a job A that was
\* popped before B, both records being there, B's record reads completed or
\* failed and A's reads processing.
C31_CompletionOutOfOrder ==
    [][\A a, b \in Workers :
          (/\ a # b
           /\ wk[a].pc \in InFlight /\ wk'[a] = wk[a]
           /\ wk[b].pc \in InFlight /\ wk'[b].pc \notin InFlight
           /\ Position(popped, wk[a].job_id) < Position(popped, wk[b].job_id)
           /\ Connected(a) /\ Connected(b)
           /\ StoredStatus(jobs, wk[a].job_id) # "absent"
           /\ StoredStatus(jobs, wk[b].job_id) # "absent")
            => /\ StoredStatus(jobs', wk[b].job_id) \in Terminal
               /\ StoredStatus(jobs', wk[a].job_id) = "processing"
      ]_vars

\* no worker ever brings a record to processing, completed or failed
C31_RecordsStayPending ==
    \A id \in DOMAIN jobs : StoredStatus(jobs, id) \in {"pending", "absent"}

\* ------------------------------------------------------------------------
\* Claims about the except branch of process_job (checked under SpecFailure)
\* ------------------------------------------------------------------------
\* text is the first n characters of message, all of it when it is shorter
IsPrefixOfLen(text, message, n) ==
    IF Len(message) <= n THEN text = message
    ELSE Len(text) = n /\ text \o SubSeq(message, n + 1, Len(message)) = message

C33_BackendWithinQuota == calls <= GLOBAL_REQUESTS

\* what does hold: the backend is called at most max_retries + 1 times for
\* each request the limiter admitted
C33_CallsPerAdmission == calls <= admittedG * (SETTINGS_MAX_RETRIES + 1)

\* ------------------------------------------------------------------------
\* Claims about the hand-out of identifiers (checked under SpecQueue)
\* ------------------------------------------------------------------------
\* a worker that holds an identifier: from the return of get_next_job to the
\* end of process_job
Holding(w) == wk[w].pc \in {"got"} \cup InFlight

\* C34: an identifier is handed out at most once.  A get_next_job call
\* returns an identifier that no earlier call has returned and that is in the
\* queue no more, and two workers never hold the same identifier, so that no
\* record has two workers writing it.
C34_HandedOutOnce ==
    /\ [](\A v, w \in Workers :
            (v # w /\ Holding(v) /\ Holding(w)) => wk[v].job_id # wk[w].job_id)
    /\ [](\A w \in Workers : Holding(w) => ~InQueue(wk[w].job_id))
    /\ [][\A w \in Workers :
            (wk[w].pc = "poll" /\ wk'[w].pc = "got")
              => /\ ~WasPopped(wk'[w].job_id)
                 /\ pushed[wk'[w].job_id].st = "done"
         ]_vars

\* both workers are processing, each the identifier it was handed
C34_Witness ==
    /\ \A w \in Workers : wk[w].pc \in InFlight
    /\ wk[1].job_id # wk[2].job_id
    /\ Len(popped) = 2 /\ queue = <<>>

C36_EveryJobServed ==
    \A id \in WorkerJobs :
        (pushed[id].st = "done" /\ StoredStatus(jobs, id) = "pending")
            ~> (WasPopped(id) /\ StoredStatus(jobs, id) \in Terminal)

\* what does hold: every such job is in the end popped
C36_EveryJobPopped ==
    \A id \in WorkerJobs : (pushed[id].st = "done") ~> WasPopped(id)

\* ------------------------------------------------------------------------
\* Claims about what a worker leaves behind (checked under SpecWorker)
\* ------------------------------------------------------------------------
\* C37: a worker that is done with an identifier, process_job having returned
\* or an exception having gone up to process_loop, leaves a record that reads
\* completed or failed, or no record: never one that reads pending or
\* processing.
C37_NoJobLeftUnfinished ==
    [][\A w \in Workers :
          (Holding(w) /\ ~Holding(w)')
            => StoredStatus(jobs', wk[w].job_id) \in Terminal \cup {"absent"}
      ]_vars

\* ------------------------------------------------------------------------
\* Claims about the isolation of callers (checked under Spec)
\* ------------------------------------------------------------------------
\* C38: the per-caller budgets are isolated.  A step of a request of caller A
\* leaves the per-caller counter of every other caller, count and expiry, as
\* it is; the count a request is judged by is the count of its own caller's
\* key; and a request whose global count is within GLOBAL_REQUESTS is
\* admitted exactly when that count is within PER_IP_REQUESTS.  So the
\* verdicts on B's requests are fixed by B's own requests and the clock,
\* whatever A does, as long as the global limit is not reached.
C38_CallerIsolation ==
    /\ [][\A s \in Slots :
            req'[s] # req[s] =>
                /\ \A c \in Callers \ {req'[s].ip} :
                      counter'[IpKey(c)] = counter[IpKey(c)]
                /\ (req[s].pc = "rl_ip_incr" /\ req'[s].pc # "error")
                     => /\ req'[s].ip_count = counter[IpKey(req[s].ip)].count + 1
                        /\ counter'[IpKey(req[s].ip)].count = req'[s].ip_count
         ]_vars
    /\ [](\A s \in Slots :
            (req[s].pc \in Outcomes /\ req[s].global_count <= GLOBAL_REQUESTS)
              => /\ (req[s].pc = "admitted") <=> (req[s].ip_count <= PER_IP_REQUESTS)
                 /\ req[s].pc = "rejected" => req[s].cause = "ip")

\* one caller is over its limit and rejected while the other caller, counted
\* on its own key, is admitted in the same window
C38_Witness ==
    \E s, t \in Slots :
        /\ req[s].pc = "rejected" /\ req[s].cause = "ip"
        /\ req[t].pc = "admitted" /\ req[t].ip # req[s].ip
        /\ req[t].ip_count = 1
        /\ counter[IpKey(req[s].ip)].count > PER_IP_REQUESTS
        /\ counter[IpKey(req[t].ip)].count = 1

\* ------------------------------------------------------------------------
\* Claims about the cache shared by the two paths (checked under SpecShared)
\* ------------------------------------------------------------------------
\* the graph the cache holds for the text of the job id, None without one
CachedFor(id) == cache_get(_generate_cache_key(get_job(id).text))

\* C39: the workers use the cache the synchronous path fills.  A worker that
\* is done with a job for whose text the cache holds a result leaves the
\* job's record completed, with that result, and has not made the cache miss
\* a compute.
C39_WorkerUsesSharedCache ==
    [][\A w \in Workers :
          (/\ Holding(w) /\ ~Holding(w)'
           /\ get_job(wk[w].job_id) # None
           /\ CacheHit(CachedFor(wk[w].job_id)))
            => /\ StoredStatus(jobs', wk[w].job_id) = "completed"
               /\ JsonLoads(jobs'[wk[w].job_id].value).fields.result
                    = CachedFor(wk[w].job_id)
               /\ cache' = cache
      ]_vars

\* ------------------------------------------------------------------------
\* Claims about the end of a worker (checked under SpecStop)
\* ------------------------------------------------------------------------
\* C40: a worker that has been sent a stop signal terminates.  Its running
\* flag is false from the signal on; with the flag false it begins no further
\* loop iteration, and once the loop has ended it pops nothing; it reaches
\* the end of process_loop; and the second stop() call, made by main when the
\* loop has ended after a stop() that is complete, changes nothing.
C40_StopEndsLoop ==
    /\ [](\A w \in Workers : wk[w].stop # "no" => ~wk[w].running)
    /\ [][\A w \in Workers :
            /\ (~wk[w].running /\ wk[w].pc # "poll") => wk'[w].pc # "poll"
            /\ wk[w].pc \in LoopEnded
                 => (wk'[w].pc \in LoopEnded /\ wk'[w].job_id = NoJobId)
            /\ (wk[w].pc = "exited" /\ wk'[w].pc = "stopped"
                  /\ wk[w].stop = "done")
                 => wk'[w] = [wk[w] EXCEPT !.pc = "stopped"]
         ]_vars
    /\ \A w \in Workers : (wk[w].stop # "no") ~> (wk[w].pc = "stopped")

\* a worker signalled while it waited in BLPOP has ended: the call was cut
\* off by the disconnect, the loop paused, saw the flag and ended, and main
\* has called stop() a second time
C40_Witness ==
    \E w \in Workers :
        /\ wk[w].pc = "stopped" /\ wk[w].last = "raised"
        /\ wk[w].stop = "done" /\ ~wk[w].running
        /\ ~WasPopped(JobId(1)) /\ InQueue(JobId(1))

====
